---- MODULE Spec2Model ----
(***************************************************************************)
(* Grid Monitor frontend: the unified data fetcher (REST / GraphQL), the   *)
(* GraphQL client wrapper it arms, the Session/View Controller (App) with  *)
(* its export menu and Archives view, the useApiToggle hook and the        *)
(* DemoDataButton.                                                         *)
(*                                                                         *)
(* JavaScript values are modelled as tagged records so that truthiness,    *)
(* Array.isArray and property reads behave as they do in the engine.       *)
(* Error messages are sequences of words; String.includes(w) is "w is one  *)
(* of the words", === is equality of the sequences.                        *)
(***************************************************************************)
EXTENDS Integers, Sequences, FiniteSets, Bags, TLC

VARIABLES
    \* DataFetcher (frontend/src/api/dataFetcher.js)
    constructed,      \* has `new DataFetcher(...)` run
    token,            \* this.token
    useGraphQL,       \* this.useGraphQL
    logCallback,      \* TRUE iff a log sink was passed to the constructor
    sinkThrows,       \* TRUE iff that sink is a function that throws when called
    requestCounter,   \* this.requestCounter
    sink,             \* the records handed to logCallback, in delivery order
    \* graphqlClient singleton (frontend/src/api/graphqlClient.js)
    gqlToken,         \* GraphQLClientWrapper.token
    gqlClient,        \* GraphQLClientWrapper.client: NoClient or its headers
    \* fetch operations of the DataFetcher
    invoked,          \* number of fetch operations invoked so far
    calls,            \* the invocations in flight (a bag), each at its await
    last              \* what the invocation that completed in this step did

fvars == <<constructed, token, useGraphQL, logCallback, sinkThrows, requestCounter, sink,
           gqlToken, gqlClient, invoked, calls, last>>

VARIABLES
    \* Session/View Controller (frontend/src/App.jsx)
    demo,             \* DEMO, fixed by the build
    phase,            \* "created" (rendered, effects not run), "mounted", "unmounted"
    isAuthenticated,
    accessToken,
    recentFaults,
    powerQuality,
    voltageData,
    stats,
    view,
    storageToken,     \* localStorage['accessToken']
    eventSourceRef,   \* eventSourceRef.current: NoSource or an index of sources
    sources,          \* every EventSource created: is it open, close() calls
    logins,           \* login requests in flight
    loginsStarted,    \* sessions asked for so far: restored at mount or submitted
    fetches,          \* the controller's data requests in flight (a bag)
    delivered,        \* stream messages delivered so far
    dropped,          \* stream messages delivered whose data did not parse
    \* ExportMenu (frontend/src/components/ExportMenu.jsx)
    exportOpen,
    exportLoading,
    exportMessage,    \* [text, type]
    exports,          \* export requests in flight (a bag)
    exportsStarted,   \* exports started so far
    handled           \* the request whose 401 the step just taken handled

VARIABLES
    \* Mode/Token preference store: localStorage and the useApiToggle hook
    storageAvailable, \* FALSE: every localStorage.getItem throws
    apiMode,          \* localStorage['apiMode']
    hookPhase,        \* "unrendered", "mounted", "crashed"
    hookUseGraphQL,   \* the useGraphQL state of useApiToggle
    toggles,          \* toggleApi calls so far
    reloads           \* page reloads so far

pvars == <<storageAvailable, apiMode, hookPhase, hookUseGraphQL, toggles, reloads>>

VARIABLES
    \* Archives (frontend/src/components/Archives.jsx), rendered by App
    archLoading,
    archError,
    archFiles,        \* "none" ([]), "demo" (the two demo files), "listed"
    archRequests,     \* list requests in flight (a bag)
    archLoads,        \* fetchArchives calls so far
    archDownloads,    \* download requests in flight (a bag)
    archDownloadsStarted

rvars == <<archLoading, archError, archFiles, archRequests, archLoads, archDownloads,
           archDownloadsStarted>>

VARIABLES
    \* DemoDataButton (frontend/src/components/DemoDataButton.jsx)
    ddMounted,
    ddToken,          \* the token prop
    ddLoading,
    ddCooldown,
    ddMessage,        \* "", "success", "error"
    ddShowConfirm,
    ddRequests,       \* populate requests in flight
    ddStarted         \* populate requests sent so far

dvars == <<ddMounted, ddToken, ddLoading, ddCooldown, ddMessage, ddShowConfirm,
           ddRequests, ddStarted>>

avars == <<demo, phase, isAuthenticated, accessToken, recentFaults, powerQuality,
           voltageData, stats, view, storageToken, eventSourceRef, sources, logins,
           loginsStarted, fetches, delivered, dropped, exportOpen, exportLoading,
           exportMessage, exports, exportsStarted, handled>>

vars == <<fvars, avars, pvars, rvars, dvars>>

----------------------------------------------------------------------------
(* Bounds *)

\* number of fetch operations invoked on the DataFetcher in one behaviour
MaxCalls == 2

\* number of sessions asked for in one behaviour: a session restored at mount
\* (saved token, demo bootstrap) and every login form submitted
MaxLogins == 2

\* number of stream messages delivered in one behaviour
MaxMessages == 2

\* number of exports started in one behaviour
MaxExports == 1

\* number of toggleApi calls in one behaviour
MaxToggles == 3

\* number of page reloads in one behaviour
MaxReloads == 2

\* number of times the user opens the Archives view or clicks its Refresh
\* button in one behaviour
MaxArchiveLoads == 2

\* number of downloads started in the Archives view in one behaviour
MaxDownloads == 1

\* number of populate requests the DemoDataButton sends in one behaviour
MaxPopulates == 2

----------------------------------------------------------------------------
(* JavaScript values *)

JNull == [kind |-> "null"]
JUndefined == [kind |-> "undefined"]
JStr(s) == [kind |-> "string", v |-> s]
JList(items) == [kind |-> "list", items |-> items]
JObj(f) == [kind |-> "object", fields |-> f]
\* the scalar a backend put in field f of its n-th record
Val(f, n) == [kind |-> "value", of |-> f, n |-> n]

\* ToBoolean
Truthy(v) ==
    CASE v.kind = "null" -> FALSE
      [] v.kind = "undefined" -> FALSE
      [] v.kind = "string" -> v.v # ""
      [] OTHER -> TRUE

IsArray(v) == v.kind = "list"

\* o.name for an object o: undefined when the property is missing
Get(o, name) ==
    IF o.kind = "object" /\ name \in DOMAIN o.fields THEN o.fields[name] ELSE JUndefined

\* can a property be read off v (null.x and undefined.x throw a TypeError)
Readable(v) == v.kind \notin {"null", "undefined"}

\* String.prototype.includes on an error message
Includes(m, w) == \E i \in 1..Len(m) : m[i] = w

TOKEN_EXPIRED == <<"TOKEN_EXPIRED">>
NotInitializedMsg == <<"GraphQL", "client", "not", "initialized.", "Call", "setToken()", "first.">>
TypeErrorMsg == <<"Cannot", "read", "properties", "of", "null">>
NotAFunctionMsg == <<"map", "is", "not", "a", "function">>

Return(v) == [kind |-> "return", value |-> v]
Throw(m) == [kind |-> "throw", message |-> m]

----------------------------------------------------------------------------
(* Inputs *)

Null == "null"
Tokens == {"tok1"}
MaybeToken == Tokens \cup {Null}

Ops == {"fetchVoltage", "fetchPowerQuality", "fetchFaults", "fetchStats", "fetchSensorStatus"}
ListOps == Ops \ {"fetchStats"}

----------------------------------------------------------------------------
(* Per-operation tables of the DataFetcher *)

\* the REST url each operation requests (default arguments)
Url(op) ==
    CASE op = "fetchVoltage" -> "/api/sensors/voltage?limit=30"
      [] op = "fetchPowerQuality" -> "/api/sensors/power-quality?limit=20"
      [] op = "fetchFaults" -> "/api/faults/recent"
      [] op = "fetchStats" -> "/api/sensors/stats"
      [] op = "fetchSensorStatus" -> "/api/sensors/status"

\* the field of the GraphQL response each operation reads
QueryName(op) ==
    CASE op = "fetchVoltage" -> "voltageReadings"
      [] op = "fetchPowerQuality" -> "powerQuality"
      [] op = "fetchFaults" -> "faultEvents"
      [] op = "fetchStats" -> "sensorStats"

InvalidMsg(op) ==
    CASE op = "fetchVoltage" -> <<"Invalid", "voltage", "data", "received">>
      [] op = "fetchPowerQuality" -> <<"Invalid", "power", "quality", "data", "received">>
      [] op = "fetchFaults" -> <<"Invalid", "fault", "events", "data", "received">>
      [] op = "fetchStats" -> <<"Invalid", "sensor", "stats", "data", "received">>

\* the fields the GraphQL queries select (api/queries.js)
GqlFields(op) ==
    CASE op = "fetchVoltage" ->
           {"id", "sensorId", "location", "voltageL1", "voltageL2", "voltageL3",
            "frequency", "timestamp"}
      [] op = "fetchPowerQuality" ->
           {"id", "sensorId", "location", "thdVoltage", "thdCurrent", "powerFactor",
            "voltageImbalance", "flickerSeverity", "timestamp"}
      [] op = "fetchFaults" ->
           {"id", "eventId", "severity", "eventType", "location", "timestamp",
            "durationMs", "resolved", "resolvedAt"}
      [] op = "fetchStats" ->
           {"totalSensors", "activeSensors", "faultCount24h", "violationCount24h",
            "avgVoltage", "minVoltage", "maxVoltage"}

\* the n-th record a GraphQL backend answers the operation's query with
GqlRecord(op, n) == JObj([f \in GqlFields(op) |-> Val(f, n)])

\* the field names of the records the REST backend serves (the backend's
\* models are not part of the frontend sources)
RestFields(op) ==
    CASE op = "fetchVoltage" ->
           {"id", "sensor_id", "location", "voltage_l1", "voltage_l2", "voltage_l3",
            "frequency", "timestamp"}
      [] op = "fetchPowerQuality" ->
           {"id", "sensor_id", "location", "thd_voltage", "thd_current", "power_factor",
            "voltage_imbalance", "flicker_severity", "timestamp"}
      [] op = "fetchFaults" ->
           {"id", "event_id", "severity", "fault_type", "location", "timestamp",
            "duration_ms", "resolved", "resolved_at"}
      [] op = "fetchStats" ->
           {"total_sensors", "active_sensors", "offline_sensors", "total_faults_24h",
            "quality_violations", "avg_voltage", "avg_power_factor", "min_voltage",
            "max_voltage"}
      [] op = "fetchSensorStatus" ->
           {"sensor_id", "location", "is_operational", "seconds_since_update"}

RestRecord(op, n) == JObj([f \in RestFields(op) |-> Val(f, n)])

----------------------------------------------------------------------------
(* Response Normalizer: the GraphQL -> REST shape mappings *)

NormalizeVoltage(reading) ==
    JObj([id |-> Get(reading, "id"),
          sensor_id |-> Get(reading, "sensorId"),
          location |-> Get(reading, "location"),
          voltage_l1 |-> Get(reading, "voltageL1"),
          voltage_l2 |-> Get(reading, "voltageL2"),
          voltage_l3 |-> Get(reading, "voltageL3"),
          frequency |-> Get(reading, "frequency"),
          timestamp |-> Get(reading, "timestamp")])

NormalizePowerQuality(metric) ==
    JObj([id |-> Get(metric, "id"),
          sensor_id |-> Get(metric, "sensorId"),
          location |-> Get(metric, "location"),
          thd_voltage |-> Get(metric, "thdVoltage"),
          thd_current |-> Get(metric, "thdCurrent"),
          power_factor |-> Get(metric, "powerFactor"),
          voltage_imbalance |-> Get(metric, "voltageImbalance"),
          flicker_severity |-> Get(metric, "flickerSeverity"),
          timestamp |-> Get(metric, "timestamp")])

\* NormalizeFault reading the type from a field the query does not select
NormalizeFaultWrongField(fault) ==
    JObj([id |-> Get(fault, "id"),
          event_id |-> Get(fault, "eventId"),
          severity |-> Get(fault, "severity"),
          fault_type |-> Get(fault, "faultType"),
          location |-> Get(fault, "location"),
          timestamp |-> Get(fault, "timestamp"),
          duration_ms |-> Get(fault, "durationMs"),
          resolved |-> Get(fault, "resolved"),
          resolved_at |-> Get(fault, "resolvedAt")])

NormalizeFault(fault) ==
    JObj([id |-> Get(fault, "id"),
          event_id |-> Get(fault, "eventId"),
          severity |-> Get(fault, "severity"),
          fault_type |-> Get(fault, "eventType"),
          location |-> Get(fault, "location"),
          timestamp |-> Get(fault, "timestamp"),
          duration_ms |-> Get(fault, "durationMs"),
          resolved |-> Get(fault, "resolved"),
          resolved_at |-> Get(fault, "resolvedAt")])

NormalizeStats(sensorStats) ==
    JObj([total_sensors |-> Get(sensorStats, "totalSensors"),
          active_sensors |-> Get(sensorStats, "activeSensors"),
          offline_sensors |-> Get(sensorStats, "offlineSensors"),
          total_faults_24h |-> Get(sensorStats, "faultCount24h"),
          quality_violations |-> Get(sensorStats, "violationCount24h"),
          avg_voltage |-> Get(sensorStats, "avgVoltage"),
          avg_power_factor |-> Get(sensorStats, "avgPowerFactor"),
          min_voltage |-> Get(sensorStats, "minVoltage"),
          max_voltage |-> Get(sensorStats, "maxVoltage")])

NormalizeRecord(op, r) ==
    CASE op = "fetchVoltage" -> NormalizeVoltage(r)
      [] op = "fetchPowerQuality" -> NormalizePowerQuality(r)
      [] op = "fetchFaults" -> NormalizeFault(r)

\* coll.map(record => ({...})): a TypeError when coll has no map or when an
\* element is null, else the mapped items in the same order
MapRecords(op, coll) ==
    IF ~IsArray(coll) THEN Throw(NotAFunctionMsg)
    ELSE IF \E i \in 1..Len(coll.items) : ~Readable(coll.items[i]) THEN Throw(TypeErrorMsg)
    ELSE Return(JList([i \in 1..Len(coll.items) |-> NormalizeRecord(op, coll.items[i])]))

----------------------------------------------------------------------------
(* DataFetcher.log *)

NoError == <<>>

\* the arguments one this.log(...) call passes
Entry(endpoint, method, status, error) ==
    [endpoint |-> endpoint, method |-> method, status |-> status, error |-> error]

\* log() numbering the record requestCounter + 1 without storing the increment
LogCounterNotStored(st, e) ==
    IF logCallback
    THEN LET rec == [id |-> st.counter + 1, endpoint |-> e.endpoint, method |-> e.method,
                     status |-> e.status, error |-> e.error]
         IN [counter |-> st.counter,
             sink |-> Append(st.sink, [id |-> rec.id, status |-> rec.status]),
             logged |-> Append(st.logged, rec)]
    ELSE st

\* log(): with a sink, deliver one record whose id is ++requestCounter.
\* st = [counter, sink, logged]: `sink` keeps the id and status of every
\* record delivered, `logged` the full records of the running invocation
Log(st, e) ==
    IF logCallback
    THEN LET rec == [id |-> st.counter + 1, endpoint |-> e.endpoint, method |-> e.method,
                     status |-> e.status, error |-> e.error]
         IN [counter |-> st.counter + 1,
             sink |-> Append(st.sink, [id |-> rec.id, status |-> rec.status]),
             logged |-> Append(st.logged, rec)]
    ELSE st

\* the log calls of one handler segment, in program order
RECURSIVE LogAll(_, _)
LogAll(st, entries) ==
    IF entries = <<>> THEN st
    ELSE LogAll(Log(st, Head(entries)), Tail(entries))

----------------------------------------------------------------------------
(* REST branch of the fetch operations *)

\* response.ok
Ok(status) == status \in 200..299

\* the error of a failed response without the status in its message
HttpErrorMsgNoStatus(status) == <<"HTTP", "error!">>

\* `HTTP error! status: ${response.status}`
HttpErrorMsg(status) == <<"HTTP", "error!", "status:", ToString(status)>>

\* catch (error) { if (!includes TOKEN_EXPIRED && !includes HTTP) log; throw error }
\* `before` are the log calls the try block made, `tried` their number
RestCatch(op, m, before) ==
    [logs |-> IF ~Includes(m, "TOKEN_EXPIRED") /\ ~Includes(m, "HTTP")
              THEN Append(before, Entry(Url(op), "GET", "error", m))
              ELSE before,
     tried |-> Len(before),
     outcome |-> Throw(m)]

\* from `await fetch(url, ...)` settling to the next await or the end;
\* r is [kind |-> "reject", message] or [kind |-> "response", status]
RestAfterFetch(op, r) ==
    IF r.kind = "reject" THEN RestCatch(op, r.message, <<>>)
    ELSE IF r.status = 401
         THEN RestCatch(op, TOKEN_EXPIRED,
                        <<Entry(Url(op), "GET", "error", TOKEN_EXPIRED)>>)
    ELSE IF ~Ok(r.status)
         THEN RestCatch(op, HttpErrorMsg(r.status),
                        <<Entry(Url(op), "GET", "error", <<"HTTP", ToString(r.status)>>)>>)
    ELSE [logs |-> <<>>, tried |-> 0, outcome |-> [kind |-> "await"]]

\* from `await response.json()` settling to the end; j is
\* [kind |-> "reject", message] or [kind |-> "resolve", data].
\* All but fetchStats read data.length for the log record.
RestAfterJson(op, j) ==
    IF j.kind = "reject" THEN RestCatch(op, j.message, <<>>)
    ELSE IF op # "fetchStats" /\ ~Readable(j.data) THEN RestCatch(op, TypeErrorMsg, <<>>)
    ELSE [logs |-> <<Entry(Url(op), "GET", "success", NoError)>>,
          tried |-> 1,
          outcome |-> Return(j.data)]

----------------------------------------------------------------------------
(* GraphQLClientWrapper *)

NoClient == "no client"
NoAuth == "no Authorization header"
NoStatus == 0

\* setToken() creating no client when the token is absent
ClientForTokenOnly(t) == IF t # Null THEN t ELSE NoClient

\* setToken(token): a new client whose headers carry the token, if any
ClientFor(t) == IF t # Null THEN t ELSE NoAuth

\* request() rethrowing the raw transport error also on a 401
GqlClientRequestRaw(client, u) ==
    IF client = NoClient THEN [kind |-> "reject", message |-> NotInitializedMsg]
    ELSE IF u.kind = "reject" THEN [kind |-> "reject", message |-> u.message]
    ELSE [kind |-> "resolve", data |-> u.data]

\* request(): what the wrapper's promise settles to, given the client it
\* used and what the underlying client's request u settled to;
\* u is [kind |-> "reject", message, status] or [kind |-> "resolve", data]
GqlClientRequest(client, u) ==
    IF client = NoClient THEN [kind |-> "reject", message |-> NotInitializedMsg]
    ELSE IF u.kind = "reject"
         THEN IF u.status = 401
              THEN [kind |-> "reject", message |-> TOKEN_EXPIRED]
              ELSE [kind |-> "reject", message |-> u.message]
    ELSE [kind |-> "resolve", data |-> u.data]

----------------------------------------------------------------------------
(* GraphQL branch of the fetch operations *)

\* the shape guard without its Array.isArray half
ValidCollectionTruthyOnly(op, coll) == Truthy(coll)

\* the shape guard: !data.x || !Array.isArray(data.x); fetchStats checks
\* !data.sensorStats only
ValidCollection(op, coll) ==
    IF op = "fetchStats" THEN Truthy(coll)
    ELSE Truthy(coll) /\ IsArray(coll)

\* catch (error) { log(error.message); if TOKEN_EXPIRED throw new Error(TOKEN_EXPIRED); throw error }
GqlCatch(op, m, before, mapped) ==
    [logs |-> Append(before, Entry("/graphql", "GraphQL", "error", m)),
     tried |-> Len(before),
     outcome |-> IF m = TOKEN_EXPIRED THEN Throw(TOKEN_EXPIRED) ELSE Throw(m),
     mapped |-> mapped]

\* from `await graphqlClient.request(...)` settling to the end
GqlAfterRequest(op, r) ==
    IF r.kind = "reject" THEN GqlCatch(op, r.message, <<>>, FALSE)
    ELSE LET coll == Get(r.data, QueryName(op)) IN
         IF ~ValidCollection(op, coll)
         THEN GqlCatch(op, InvalidMsg(op),
                       <<Entry("/graphql", "GraphQL", "error", InvalidMsg(op))>>, FALSE)
         ELSE IF op = "fetchStats"
         THEN [logs |-> <<Entry("/graphql", "GraphQL", "success", NoError)>>,
               tried |-> 1,
               outcome |-> Return(NormalizeStats(coll)),
               mapped |-> FALSE]
         ELSE LET m == MapRecords(op, coll) IN
              IF m.kind = "throw" THEN GqlCatch(op, m.message, <<>>, TRUE)
              ELSE [logs |-> <<Entry("/graphql", "GraphQL", "success", NoError)>>,
                    tried |-> 1,
                    outcome |-> m,
                    mapped |-> TRUE]

----------------------------------------------------------------------------
(* What the transports can answer *)

NoReply == [kind |-> "none"]

Statuses == {200, 401, 404, 500}

FetchRejectMsgs ==
    {<<"Failed", "to", "fetch">>,
     <<"connect", "ECONNREFUSED", "via", "HTTP", "proxy">>}

JsonRejectMsgs ==
    {<<"Unexpected", "token", "<">>,
     <<"Unexpected", "token", "H", "HTTP", "Bad", "Gateway">>,
     <<"Unexpected", "token", "T", "TOKEN_EXPIRED">>}

\* what `await fetch(url, ...)` can settle to
RestFetchResults ==
    {[kind |-> "reject", message |-> m, status |-> NoStatus] : m \in FetchRejectMsgs}
    \cup {[kind |-> "response", message |-> NoError, status |-> s] : s \in Statuses}

\* the bodies a 2xx REST response can carry
RestBodies(op) ==
    IF op = "fetchStats" THEN {RestRecord(op, 1), JNull}
    ELSE {JList(<<>>), JList(<<RestRecord(op, 1), RestRecord(op, 2)>>), JNull}

\* what `await response.json()` can settle to
RestJsonResults(op) ==
    {[kind |-> "reject", message |-> m, data |-> JUndefined] : m \in JsonRejectMsgs}
    \cup {[kind |-> "resolve", message |-> NoError, data |-> d] : d \in RestBodies(op)}

\* the values the response's collection field can hold
GqlCollections(op) ==
    IF op = "fetchStats" THEN {JNull, GqlRecord(op, 1)}
    ELSE {JNull, JStr("oops"), JList(<<>>),
          JList(<<GqlRecord(op, 1), GqlRecord(op, 2)>>),
          JList(<<GqlRecord(op, 1), JNull>>)}

\* the response objects: without the collection field, or with it
GqlData(op) ==
    {JObj(<<>>)} \cup {JObj([f \in {QueryName(op)} |-> v]) : v \in GqlCollections(op)}

\* what the underlying client's request can settle to
GqlResults(op) ==
    {[kind |-> "reject", message |-> <<"GraphQL", "Error", "(Code:", "401)">>,
      status |-> 401, data |-> JUndefined],
     [kind |-> "reject", message |-> <<"GraphQL", "Error", "(Code:", "500)">>,
      status |-> 500, data |-> JUndefined],
     [kind |-> "reject", message |-> <<"Network", "request", "failed">>,
      status |-> NoStatus, data |-> JUndefined]}
    \cup {[kind |-> "resolve", message |-> NoError, status |-> 200, data |-> d] : d \in GqlData(op)}

JsonReplies == UNION {RestJsonResults(op) : op \in Ops}

GqlReplies == UNION {GqlResults(op) : op \in Ops \ {"fetchSensorStatus"}} \cup {NoReply}

----------------------------------------------------------------------------
(* A log sink that throws *)

\* the message of the error a throwing sink throws
SinkErrorMsg == <<"sink", "failed">>

\* log() calls this.logCallback(...) unguarded, so an error thrown by the
\* callback comes out of the log call. res is what a handler segment does
\* when its log calls return. With a sink that throws, the first log call
\* hands its record over and throws: made in the try block (tried > 0) it
\* takes control to the catch block, whose own log call throws in turn;
\* made in the catch block it replaces the error being rethrown.
Observed(via, op, res) ==
    IF ~(logCallback /\ sinkThrows) \/ res.logs = <<>> THEN res
    ELSE IF res.tried = 0 THEN [res EXCEPT !.outcome = Throw(SinkErrorMsg)]
    ELSE IF via = "rest"
         THEN RestCatch(op, SinkErrorMsg, <<Head(res.logs)>>)
         ELSE GqlCatch(op, SinkErrorMsg, <<Head(res.logs)>>, res.mapped)

----------------------------------------------------------------------------
(* State of the invocations *)

NoLast == [op |-> "none"]

\* `last` is the record of the invocation that completed in the step just
\* taken (NoLast after any other step): what it was, what the transport
\* answered, what the caller got, the records it logged
CompletedCurrentAuth(call, json, reply, outcome, logged, mapped) ==
    [op |-> call.op, via |-> call.via, auth |-> token,
     restCalls |-> call.restCalls, gqlCalls |-> call.gqlCalls,
     fetch |-> call.fetch, json |-> json, reply |-> reply,
     outcome |-> outcome, logged |-> logged, mapped |-> mapped]

Completed(call, json, reply, outcome, logged, mapped) ==
    [op |-> call.op, via |-> call.via, auth |-> call.auth,
     restCalls |-> call.restCalls, gqlCalls |-> call.gqlCalls,
     fetch |-> call.fetch, json |-> json, reply |-> reply,
     outcome |-> outcome, logged |-> logged, mapped |-> mapped]

InFlight == BagToSet(calls)

Without(call) == calls (-) SetToBag({call})

----------------------------------------------------------------------------
(* DataFetcher: constructor, setMode, setToken *)

\* graphqlClient.setToken(t)
GqlSetToken(t) ==
    /\ gqlToken' = t
    /\ gqlClient' = ClientFor(t)

\* new DataFetcher(t, g, withSink ? callback : null)
Construct(t, g, withSink) ==
    /\ ~constructed
    /\ constructed' = TRUE
    /\ token' = t
    /\ useGraphQL' = g
    /\ logCallback' = withSink
    /\ sinkThrows' = FALSE
    /\ requestCounter' = 0
    /\ IF g THEN GqlSetToken(t) ELSE UNCHANGED <<gqlToken, gqlClient>>
    /\ last' = NoLast
    /\ UNCHANGED <<sink, invoked, calls>>
    /\ UNCHANGED <<avars, pvars, rvars, dvars>>

\* new DataFetcher(t, g, callback) with a callback that throws
ConstructObserved(t, g) ==
    /\ ~constructed
    /\ constructed' = TRUE
    /\ token' = t
    /\ useGraphQL' = g
    /\ logCallback' = TRUE
    /\ sinkThrows' = TRUE
    /\ requestCounter' = 0
    /\ IF g THEN GqlSetToken(t) ELSE UNCHANGED <<gqlToken, gqlClient>>
    /\ last' = NoLast
    /\ UNCHANGED <<sink, invoked, calls>>
    /\ UNCHANGED <<avars, pvars, rvars, dvars>>

\* setMode() that switches the flag and leaves the GraphQL client as it is
SetModeNoRearm(g) ==
    /\ constructed
    /\ useGraphQL' = g
    /\ last' = NoLast
    /\ UNCHANGED <<constructed, token, logCallback, sinkThrows, requestCounter, sink, invoked, calls,
                   gqlToken, gqlClient>>
    /\ UNCHANGED <<avars, pvars, rvars, dvars>>

SetMode(g) ==
    /\ constructed
    /\ useGraphQL' = g
    /\ IF g THEN GqlSetToken(token) ELSE UNCHANGED <<gqlToken, gqlClient>>
    /\ last' = NoLast
    /\ UNCHANGED <<constructed, token, logCallback, sinkThrows, requestCounter, sink, invoked, calls>>
    /\ UNCHANGED <<avars, pvars, rvars, dvars>>

\* setToken() that also falls back to REST
SetTokenResetsMode(t) ==
    /\ constructed
    /\ token' = t
    /\ useGraphQL' = FALSE
    /\ IF useGraphQL THEN GqlSetToken(t) ELSE UNCHANGED <<gqlToken, gqlClient>>
    /\ last' = NoLast
    /\ UNCHANGED <<constructed, logCallback, sinkThrows, requestCounter, sink, invoked, calls>>
    /\ UNCHANGED <<avars, pvars, rvars, dvars>>

SetToken(t) ==
    /\ constructed
    /\ token' = t
    /\ IF useGraphQL THEN GqlSetToken(t) ELSE UNCHANGED <<gqlToken, gqlClient>>
    /\ last' = NoLast
    /\ UNCHANGED <<constructed, useGraphQL, logCallback, sinkThrows, requestCounter, sink, invoked, calls>>
    /\ UNCHANGED <<avars, pvars, rvars, dvars>>

----------------------------------------------------------------------------
(* DataFetcher: the fetch operations *)

\* fetchSensorStatus branching on the mode like the other four
TransportByMode(op) == IF useGraphQL THEN "graphql" ELSE "rest"

\* which transport serves the operation: `if (this.useGraphQL)`, except
\* fetchSensorStatus, which has no such branch
Transport(op) ==
    IF op = "fetchSensorStatus" THEN "rest"
    ELSE IF useGraphQL THEN "graphql" ELSE "rest"

\* the synchronous part of a fetch operation, up to its first await: the
\* REST request is sent with this.token, the GraphQL one through the
\* client the wrapper holds now (none: request() fails without any I/O)
Invoke(op) ==
    /\ constructed
    /\ invoked < MaxCalls
    /\ invoked' = invoked + 1
    /\ calls' = calls (+) SetToBag({
          IF Transport(op) = "graphql"
          THEN [pc |-> "request", op |-> op, via |-> "graphql", auth |-> gqlClient,
                restCalls |-> 0, gqlCalls |-> IF gqlClient = NoClient THEN 0 ELSE 1,
                fetch |-> NoReply]
          ELSE [pc |-> "fetch", op |-> op, via |-> "rest", auth |-> token,
                restCalls |-> 1, gqlCalls |-> 0, fetch |-> NoReply]})
    /\ last' = NoLast
    /\ UNCHANGED <<constructed, token, useGraphQL, logCallback, sinkThrows, requestCounter, sink,
                   gqlToken, gqlClient>>
    /\ UNCHANGED <<avars, pvars, rvars, dvars>>

LogState == [counter |-> requestCounter, sink |-> sink, logged |-> <<>>]

\* `await fetch(...)` of the invocation `call` settles with r
FetchSettles(call, r) ==
    /\ call.pc = "fetch"
    /\ LET got == [call EXCEPT !.fetch = r]
           res == Observed("rest", call.op, RestAfterFetch(call.op, r))
           st == LogAll(LogState, res.logs)
       IN /\ requestCounter' = st.counter
          /\ sink' = st.sink
          /\ IF res.outcome.kind = "await"
             THEN /\ calls' = Without(call) (+) SetToBag({[got EXCEPT !.pc = "json"]})
                  /\ last' = NoLast
             ELSE /\ calls' = Without(call)
                  /\ last' = Completed(got, NoReply, NoReply, res.outcome, st.logged, FALSE)
    /\ UNCHANGED <<constructed, token, useGraphQL, logCallback, sinkThrows, gqlToken, gqlClient, invoked>>
    /\ UNCHANGED <<avars, pvars, rvars, dvars>>

\* `await response.json()` of the invocation `call` settles with j
JsonSettles(call, j) ==
    /\ call.pc = "json"
    /\ j \in RestJsonResults(call.op)
    /\ LET res == Observed("rest", call.op, RestAfterJson(call.op, j))
           st == LogAll(LogState, res.logs)
       IN /\ requestCounter' = st.counter
          /\ sink' = st.sink
          /\ calls' = Without(call)
          /\ last' = Completed(call, j, NoReply, res.outcome, st.logged, FALSE)
    /\ UNCHANGED <<constructed, token, useGraphQL, logCallback, sinkThrows, gqlToken, gqlClient, invoked>>
    /\ UNCHANGED <<avars, pvars, rvars, dvars>>

\* `await graphqlClient.request(...)` of the invocation `call` settles, the
\* underlying request having settled with u (nothing was sent when there
\* was no client)
RequestSettles(call, u) ==
    /\ call.pc = "request"
    /\ IF call.auth = NoClient THEN u = NoReply ELSE u \in GqlResults(call.op)
    /\ LET res == Observed("graphql", call.op,
                            GqlAfterRequest(call.op, GqlClientRequest(call.auth, u)))
           st == LogAll(LogState, res.logs)
       IN /\ requestCounter' = st.counter
          /\ sink' = st.sink
          /\ calls' = Without(call)
          /\ last' = Completed(call, NoReply, u, res.outcome, st.logged, res.mapped)
    /\ UNCHANGED <<constructed, token, useGraphQL, logCallback, sinkThrows, gqlToken, gqlClient, invoked>>
    /\ UNCHANGED <<avars, pvars, rvars, dvars>>

FNext ==
    \/ \E t \in MaybeToken, g \in BOOLEAN, s \in BOOLEAN : Construct(t, g, s)
    \/ \E g \in BOOLEAN : SetMode(g)
    \/ \E t \in MaybeToken : SetToken(t)
    \/ \E op \in Ops : Invoke(op)
    \/ \E call \in InFlight, r \in RestFetchResults : FetchSettles(call, r)
    \/ \E call \in InFlight, j \in JsonReplies : JsonSettles(call, j)
    \/ \E call \in InFlight, u \in GqlReplies : RequestSettles(call, u)

----------------------------------------------------------------------------
(* GraphQLClientWrapper used directly: setToken, request, mutate *)

ClientMethods == {"request", "mutate"}

\* what the underlying client's request can settle to
ClientResults ==
    {[kind |-> "reject", message |-> <<"GraphQL", "Error", "(Code:", "401)">>,
      status |-> 401, data |-> JUndefined],
     [kind |-> "reject", message |-> <<"GraphQL", "Error", "(Code:", "500)">>,
      status |-> 500, data |-> JUndefined],
     [kind |-> "reject", message |-> <<"Network", "request", "failed">>,
      status |-> NoStatus, data |-> JUndefined],
     [kind |-> "resolve", message |-> NoError, status |-> 200, data |-> JObj(<<>>)]}

\* graphqlClient.setToken(t)
ClientSetToken(t) ==
    /\ GqlSetToken(t)
    /\ last' = NoLast
    /\ UNCHANGED <<constructed, token, useGraphQL, logCallback, sinkThrows, requestCounter, sink,
                   invoked, calls>>
    /\ UNCHANGED <<avars, pvars, rvars, dvars>>

\* graphqlClient.request(...) or graphqlClient.mutate(...), which calls
\* request: up to the await. Without a client it throws before anything is
\* sent; with one, the underlying request is sent through it
ClientInvoke(method) ==
    /\ invoked < MaxCalls
    /\ invoked' = invoked + 1
    /\ calls' = calls (+) SetToBag({
          [pc |-> "client", op |-> method, via |-> "graphql", auth |-> gqlClient,
           restCalls |-> 0, gqlCalls |-> IF gqlClient = NoClient THEN 0 ELSE 1,
           fetch |-> NoReply]})
    /\ last' = NoLast
    /\ UNCHANGED <<constructed, token, useGraphQL, logCallback, sinkThrows, requestCounter, sink,
                   gqlToken, gqlClient>>
    /\ UNCHANGED <<avars, pvars, rvars, dvars>>

\* the promise of request()/mutate() settles, the underlying request having
\* settled with u (nothing was sent when there was no client)
ClientSettles(call, u) ==
    /\ call.pc = "client"
    /\ IF call.auth = NoClient THEN u = NoReply ELSE u \in ClientResults
    /\ LET res == GqlClientRequest(call.auth, u)
           outcome == IF res.kind = "reject" THEN Throw(res.message) ELSE Return(res.data)
       IN last' = Completed(call, NoReply, u, outcome, <<>>, FALSE)
    /\ calls' = Without(call)
    /\ UNCHANGED <<constructed, token, useGraphQL, logCallback, sinkThrows, requestCounter, sink,
                   gqlToken, gqlClient, invoked>>
    /\ UNCHANGED <<avars, pvars, rvars, dvars>>

CNext ==
    \/ \E t \in MaybeToken : ClientSetToken(t)
    \/ \E method \in ClientMethods : ClientInvoke(method)
    \/ \E call \in InFlight, u \in ClientResults \cup {NoReply} : ClientSettles(call, u)

\* the DataFetcher with any callback as its sink, one that throws included
ONext ==
    \/ FNext
    \/ \E t \in MaybeToken, g \in BOOLEAN : ConstructObserved(t, g)

----------------------------------------------------------------------------
(* Properties of the DataFetcher *)

\* the invocation that completed in the step just taken got a 401
Rest401 == last.op # "none" /\ last.via = "rest" /\ last.fetch.kind = "response"
           /\ last.fetch.status = 401

Gql401 == last.op # "none" /\ last.via = "graphql" /\ last.reply.kind = "reject"
          /\ last.reply.status = 401

\* C1: a REST fetch answered 401 and a GraphQL fetch whose upstream failure
\* carries status 401 both fail with the error whose message is exactly
\* TOKEN_EXPIRED, for every operation
C1_TokenExpiredUniform ==
    (Rest401 \/ Gql401) => last.outcome = Throw(TOKEN_EXPIRED)

C1_Witness == Gql401 /\ last.op = "fetchStats" /\ last.outcome = Throw(TOKEN_EXPIRED)

\* the collection field of the GraphQL response the last invocation got
LastCollection == Get(last.reply.data, QueryName(last.op))

\* a GraphQL fetchVoltage / fetchPowerQuality got a response whose
\* collection field is absent or is not a list
GqlNotAList ==
    /\ last.op \in {"fetchVoltage", "fetchPowerQuality"}
    /\ last.via = "graphql"
    /\ last.reply.kind = "resolve"
    /\ LastCollection.kind # "list"

\* C2: in GraphQL mode fetchVoltage and fetchPowerQuality fail with their
\* Invalid ... data received error when the collection field is absent or
\* not a list, and the mapping step is not run on it
C2_InvalidDataBeforeMap ==
    GqlNotAList => last.outcome = Throw(InvalidMsg(last.op)) /\ ~last.mapped

C2_Witness ==
    /\ GqlNotAList
    /\ LastCollection = JStr("oops")
    /\ last.outcome = Throw(<<"Invalid", "power", "quality", "data", "received">>)

\* C3: with a sink attached every invocation, whatever its outcome, appends
\* exactly one record
C3_ExactlyOneRecord ==
    (last.op # "none" /\ logCallback) => Len(last.logged) = 1

\* C4: the ids delivered to the sink are strictly increasing in delivery order
C4_IdsStrictlyIncreasing ==
    \A i \in 1..Len(sink), j \in 1..Len(sink) : i < j => sink[i].id < sink[j].id

\* an invocation logged two records while another invocation was in flight
C4_Witness ==
    /\ last.op # "none"
    /\ Len(last.logged) = 2
    /\ Len(sink) >= 2
    /\ InFlight # {}

\* the transport of the last invocation rejected, answered an error status
\* or answered invalid data
LastFailed ==
    /\ last.op # "none"
    /\ \/ last.via = "rest" /\ last.fetch.kind = "reject"
       \/ last.via = "rest" /\ last.fetch.kind = "response" /\ ~Ok(last.fetch.status)
       \/ last.via = "rest" /\ last.json.kind = "reject"
       \/ last.via = "graphql" /\ last.reply.kind \in {"reject", "none"}
       \/ last.via = "graphql" /\ last.reply.kind = "resolve"
          /\ IF last.op = "fetchStats" THEN ~Readable(LastCollection)
             ELSE LastCollection.kind # "list"

\* C5: every failure is a rejection seen by the caller and, with a sink, is
\* in the log as a record with status error
C5_NoFailureSwallowed ==
    LastFailed =>
        /\ last.outcome.kind = "throw"
        /\ logCallback => \E i \in 1..Len(last.logged) : last.logged[i].status = "error"

\* the GraphQL field a field of the REST shape is filled from
GqlFieldOf(f) ==
    CASE f = "sensor_id" -> "sensorId"
      [] f = "voltage_l1" -> "voltageL1"
      [] f = "voltage_l2" -> "voltageL2"
      [] f = "voltage_l3" -> "voltageL3"
      [] f = "thd_voltage" -> "thdVoltage"
      [] f = "thd_current" -> "thdCurrent"
      [] f = "power_factor" -> "powerFactor"
      [] f = "voltage_imbalance" -> "voltageImbalance"
      [] f = "flicker_severity" -> "flickerSeverity"
      [] f = "event_id" -> "eventId"
      [] f = "fault_type" -> "eventType"
      [] f = "duration_ms" -> "durationMs"
      [] f = "resolved_at" -> "resolvedAt"
      [] f = "total_sensors" -> "totalSensors"
      [] f = "active_sensors" -> "activeSensors"
      [] f = "offline_sensors" -> "offlineSensors"
      [] f = "total_faults_24h" -> "faultCount24h"
      [] f = "quality_violations" -> "violationCount24h"
      [] f = "avg_voltage" -> "avgVoltage"
      [] f = "avg_power_factor" -> "avgPowerFactor"
      [] f = "min_voltage" -> "minVoltage"
      [] f = "max_voltage" -> "maxVoltage"
      [] OTHER -> f

\* out is the record of the REST shape of op filled from the GraphQL record in
SameShape(op, out, in) ==
    /\ out.kind = "object"
    /\ DOMAIN out.fields = RestFields(op)
    /\ \A f \in RestFields(op) : out.fields[f] = Get(in, GqlFieldOf(f))

GqlReturned == last.op # "none" /\ last.via = "graphql" /\ last.outcome.kind = "return"

C7_GraphQLClientArmed ==
    /\ (constructed /\ useGraphQL) =>
          gqlClient # NoClient /\ gqlClient = ClientFor(token) /\ gqlToken = token
    /\ \A call \in InFlight : call.via = "graphql" => call.auth # NoClient
    /\ last.op # "none" => last.outcome # Throw(NotInitializedMsg)

\* the token was set in GraphQL mode while a request sent without one is in flight
C7_Witness ==
    /\ useGraphQL
    /\ token = "tok1"
    /\ gqlClient = "tok1"
    /\ \E call \in InFlight : call.via = "graphql" /\ call.auth = NoAuth

\* C8: fetchSensorStatus goes out as exactly one REST call and no GraphQL request
C8_SensorStatusRestOnly ==
    /\ \A call \in InFlight : call.op = "fetchSensorStatus" =>
          call.via = "rest" /\ call.restCalls = 1 /\ call.gqlCalls = 0
    /\ last.op = "fetchSensorStatus" =>
          last.via = "rest" /\ last.restCalls = 1 /\ last.gqlCalls = 0

\* a fetchSensorStatus in flight in GraphQL mode next to a GraphQL request
C8_Witness ==
    /\ useGraphQL
    /\ \E call \in InFlight : call.op = "fetchSensorStatus" /\ call.pc = "fetch"
    /\ \E call \in InFlight : call.via = "graphql"


----------------------------------------------------------------------------
(* Session/View Controller (frontend/src/App.jsx) and the ExportMenu it renders *)

DemoToken == "demo-token"

\* eventSourceRef.current === null
NoSource == 0

InitialStats == [total_sensors |-> 0, total_faults_24h |-> 0, violations |-> 0]

DemoStats == [total_sensors |-> 12, total_faults_24h |-> 1, violations |-> 0]

\* lengths of the windows the stream listener keeps
VoltageWindow == 30

PowerQualityWindow == 20

FaultWindow == 10

\* items are numbers: 1xx fetched, 2xx seeded in demo mode, 9xx streamed
DemoVoltage == [i \in 1..30 |-> 200 + i]

DemoPowerQuality == [i \in 1..20 |-> 200 + i]

DemoFaults == <<201>>

Kinds == {"faults", "powerQuality", "voltage", "stats"}

\* the body a successful data request carries
Body(kind) ==
    CASE kind = "faults"       -> [i \in 1..FaultWindow |-> 100 + i]
      [] kind = "powerQuality" -> [i \in 1..PowerQualityWindow |-> 100 + i]
      [] kind = "voltage"      -> [i \in 1..VoltageWindow |-> 100 + i]
      [] kind = "stats"        -> [total_sensors |-> 5, total_faults_24h |-> 2,
                                   violations |-> 1]

\* a slice that keeps the first n entries where the last n are wanted
SliceLastKeepsOldest(seq, n) ==
    IF Len(seq) <= n THEN seq ELSE SubSeq(seq, 1, n)

\* Array.prototype.slice(-n)
SliceLast(seq, n) ==
    IF Len(seq) <= n THEN seq ELSE SubSeq(seq, Len(seq) - n + 1, Len(seq))

\* a slice that keeps the last n entries where the first n are wanted
SliceFirstKeepsLast(seq, n) ==
    IF Len(seq) <= n THEN seq ELSE SubSeq(seq, Len(seq) - n + 1, Len(seq))

\* Array.prototype.slice(0, n)
SliceFirst(seq, n) ==
    IF Len(seq) <= n THEN seq ELSE SubSeq(seq, 1, n)

NoRequest == "none"

NoMessage == [text |-> "", type |-> ""]

ExportPaths == {"/export/voltage?hours=24", "/export/faults?hours=24"}

\* what a data request of the controller can come back with
DataOutcomes == {"data", "unauthorized", "serverError", "badJson", "rejected"}

LoginOutcomes == {"ok", "refused", "rejected"}

ExportOutcomes == {"unauthorized", "success", "errorStatus", "errorBody", "badJson",
                   "rejected"}

StreamParts == {"voltage", "power_quality", "fault"}

\* event.data of a stream message: text that does not parse, or an envelope
Envelopes == {[parses |-> FALSE, parts |-> {}]}
             \cup {[parses |-> TRUE, parts |-> {part}] : part \in StreamParts}
             \cup {[parses |-> TRUE, parts |-> StreamParts]}

\* a React state setter has no effect once the component is unmounted
Alive == phase = "mounted"

\* eventSourceRef.current.close(), when there is a current source
Closed(srcs, ref) ==
    IF ref = NoSource THEN srcs
    ELSE [srcs EXCEPT ![ref] = [open |-> FALSE, closes |-> @.closes + 1]]

\* fetchFaults(token); fetchPowerQuality(token); fetchVoltage(token); fetchStats(token)
\* up to their first await
Started(tok) ==
    [f \in {[kind |-> k, token |-> tok] : k \in Kinds} |-> 1]

\* startDataFetch that opens the new EventSource without closing the current one
StartDataFetchNoClose(tok, alive) ==
    IF demo
    THEN /\ voltageData' = IF alive THEN DemoVoltage ELSE voltageData
         /\ powerQuality' = IF alive THEN DemoPowerQuality ELSE powerQuality
         /\ recentFaults' = IF alive THEN DemoFaults ELSE recentFaults
         /\ stats' = IF alive THEN DemoStats ELSE stats
         /\ sources' = Closed(sources, eventSourceRef)
         /\ eventSourceRef' = NoSource
         /\ UNCHANGED fetches
    ELSE /\ fetches' = fetches (+) Started(tok)
         /\ sources' = Append(sources, [open |-> TRUE, closes |-> 0])
         /\ eventSourceRef' = Len(sources) + 1
         /\ UNCHANGED <<voltageData, powerQuality, recentFaults, stats>>

\* startDataFetch(tok); alive: do the state setters still have an effect
StartDataFetch(tok, alive) ==
    IF demo
    THEN /\ voltageData' = IF alive THEN DemoVoltage ELSE voltageData
         /\ powerQuality' = IF alive THEN DemoPowerQuality ELSE powerQuality
         /\ recentFaults' = IF alive THEN DemoFaults ELSE recentFaults
         /\ stats' = IF alive THEN DemoStats ELSE stats
         /\ sources' = Closed(sources, eventSourceRef)
         /\ eventSourceRef' = NoSource
         /\ UNCHANGED fetches
    ELSE /\ fetches' = fetches (+) Started(tok)
         /\ sources' = Append(Closed(sources, eventSourceRef),
                              [open |-> TRUE, closes |-> 0])
         /\ eventSourceRef' = Len(sources) + 1
         /\ UNCHANGED <<voltageData, powerQuality, recentFaults, stats>>

----------------------------------------------------------------------------
(* Archives (frontend/src/components/Archives.jsx) as App renders it *)

\* the tokens /api/auth/login answers with in the sessions of the header
SessionTokens == {"tok1", "tok2"}

ArchiveOutcomes == {"listed", "errorStatus", "errorBody", "unauthorized", "badJson",
                    "rejected"}

DownloadOutcomes == {"opened", "failed", "rejected"}

\* {view === 'archives' && <Archives token={accessToken} />}, in the
\* authenticated branch of a mounted App
ArchivesShown == Alive /\ isAuthenticated /\ view = "archives"

\* useState([]), useState(false), useState('')
ArchivesInitial == [loading |-> FALSE, error |-> "", files |-> "none"]

ArchivesState == [loading |-> archLoading, error |-> archError, files |-> archFiles]

\* fetchArchives up to its return or its first await, from the component
\* state st with the token prop tok: the state it sets, and whether it sends
\* GET /api/export/list
FetchArchives(tok, st) ==
    IF demo THEN [state |-> [st EXCEPT !.error = "", !.files = "demo"], sends |-> FALSE]
    ELSE IF tok = Null
    THEN [state |-> [st EXCEPT !.error = "Login required"], sends |-> FALSE]
    ELSE [state |-> [st EXCEPT !.loading = TRUE, !.error = ""], sends |-> TRUE]

\* the requests of a component instance that is unmounted: they stay in
\* flight and their setters will have no effect
Orphaned(requests) ==
    [e \in {[x EXCEPT !.current = FALSE] : x \in BagToSet(requests)} |->
        CopiesIn([e EXCEPT !.current = TRUE], requests) + CopiesIn(e, requests)]

\* what a step of App does to Archives through the render that follows it:
\* unmounted when App no longer shows it; mounted, with the effect that calls
\* fetchArchives, when App starts to show it; the effect run again when the
\* token prop has changed (useEffect(..., [token])); left alone otherwise
ArchivesRender ==
    LET shown == phase' = "mounted" /\ isAuthenticated' /\ view' = "archives"
        runs == shown /\ (~ArchivesShown \/ accessToken' # accessToken)
        base == IF ArchivesShown THEN ArchivesState ELSE ArchivesInitial
        kept == IF ArchivesShown THEN archRequests ELSE Orphaned(archRequests)
        res == FetchArchives(accessToken', base)
        st == IF ~shown THEN ArchivesInitial ELSE IF runs THEN res.state ELSE base
    IN  /\ archLoading' = st.loading
        /\ archError' = st.error
        /\ archFiles' = st.files
        /\ archRequests' =
              IF ~shown THEN Orphaned(archRequests)
              ELSE IF runs /\ res.sends
              THEN kept (+) SetToBag({[token |-> accessToken', current |-> TRUE]})
              ELSE kept
        /\ archLoads' = IF runs THEN archLoads + 1 ELSE archLoads
        /\ archDownloads' = IF shown /\ ArchivesShown THEN archDownloads
                            ELSE Orphaned(archDownloads)
        /\ UNCHANGED archDownloadsStarted

\* the Refresh button, disabled while loading
ArchivesRefresh ==
    /\ ArchivesShown
    /\ ~archLoading
    /\ archLoads < MaxArchiveLoads
    /\ archLoads' = archLoads + 1
    /\ LET res == FetchArchives(accessToken, ArchivesState)
       IN  /\ archLoading' = res.state.loading
           /\ archError' = res.state.error
           /\ archFiles' = res.state.files
           /\ archRequests' =
                 IF res.sends
                 THEN archRequests (+) SetToBag({[token |-> accessToken, current |-> TRUE]})
                 ELSE archRequests
    /\ handled' = NoRequest
    /\ UNCHANGED <<archDownloads, archDownloadsStarted>>
    /\ UNCHANGED <<demo, phase, isAuthenticated, accessToken, recentFaults, powerQuality,
                   voltageData, stats, view, storageToken, eventSourceRef, sources, logins,
                   loginsStarted, fetches, delivered, dropped, exportOpen, exportLoading,
                   exportMessage, exports, exportsStarted>>
    /\ UNCHANGED <<fvars, pvars, dvars>>

\* fetchArchives from the answer of its request on: the response and its body
\* are read in one try, whose finally resets the loading flag; the setters
\* act on the instance that sent the request, if it is still mounted
ArchivesSettles(r, o) ==
    /\ r \in BagToSet(archRequests)
    /\ archRequests' = archRequests (-) SetToBag({r})
    /\ IF r.current
       THEN /\ archError' = IF o = "listed" THEN archError ELSE "Failed to load archives"
            /\ archFiles' = IF o = "listed" THEN "listed" ELSE "none"
            /\ archLoading' = FALSE
       ELSE UNCHANGED <<archLoading, archError, archFiles>>
    /\ handled' = NoRequest
    /\ UNCHANGED <<archLoads, archDownloads, archDownloadsStarted>>
    /\ UNCHANGED <<demo, phase, isAuthenticated, accessToken, recentFaults, powerQuality,
                   voltageData, stats, view, storageToken, eventSourceRef, sources, logins,
                   loginsStarted, fetches, delivered, dropped, exportOpen, exportLoading,
                   exportMessage, exports, exportsStarted>>
    /\ UNCHANGED <<fvars, pvars, dvars>>

\* downloadFile(key) up to its return or its first await: a Download button
\* of a listed file
ArchivesDownload ==
    /\ ArchivesShown
    /\ archFiles # "none"
    /\ archDownloadsStarted < MaxDownloads
    /\ archDownloadsStarted' = archDownloadsStarted + 1
    /\ archDownloads' =
          IF demo \/ accessToken = Null THEN archDownloads
          ELSE archDownloads (+) SetToBag({[token |-> accessToken, current |-> TRUE]})
    /\ handled' = NoRequest
    /\ UNCHANGED <<archLoading, archError, archFiles, archRequests, archLoads>>
    /\ UNCHANGED <<demo, phase, isAuthenticated, accessToken, recentFaults, powerQuality,
                   voltageData, stats, view, storageToken, eventSourceRef, sources, logins,
                   loginsStarted, fetches, delivered, dropped, exportOpen, exportLoading,
                   exportMessage, exports, exportsStarted>>
    /\ UNCHANGED <<fvars, pvars, dvars>>

\* downloadFile from the answer on: the file is opened, or the error is shown
DownloadSettles(r, o) ==
    /\ r \in BagToSet(archDownloads)
    /\ archDownloads' = archDownloads (-) SetToBag({r})
    /\ archError' = IF r.current /\ o # "opened" THEN "Download failed" ELSE archError
    /\ handled' = NoRequest
    /\ UNCHANGED <<archLoading, archFiles, archRequests, archLoads, archDownloadsStarted>>
    /\ UNCHANGED <<demo, phase, isAuthenticated, accessToken, recentFaults, powerQuality,
                   voltageData, stats, view, storageToken, eventSourceRef, sources, logins,
                   loginsStarted, fetches, delivered, dropped, exportOpen, exportLoading,
                   exportMessage, exports, exportsStarted>>
    /\ UNCHANGED <<fvars, pvars, dvars>>

----------------------------------------------------------------------------
(* Session/View Controller: the handlers *)

\* the two mount effects: restore the session, register the cleanup. The first
\* statement reads localStorage outside any try: when the read throws, the effect
\* throws and React tears the tree down
Mount ==
    /\ phase = "created"
    /\ phase' = IF storageAvailable THEN "mounted" ELSE "crashed"
    /\ IF storageAvailable /\ (demo \/ storageToken # Null)
       THEN /\ accessToken' = IF demo THEN DemoToken ELSE storageToken
            /\ isAuthenticated' = TRUE
            /\ StartDataFetch(accessToken', TRUE)
            /\ loginsStarted' = loginsStarted + 1
       ELSE UNCHANGED <<accessToken, isAuthenticated, voltageData, powerQuality,
                        recentFaults, stats, sources, eventSourceRef, fetches,
                        loginsStarted>>
    /\ handled' = NoRequest
    /\ UNCHANGED <<demo, view, storageToken, logins, delivered, dropped,
                   exportOpen, exportLoading, exportMessage, exports, exportsStarted>>
    /\ UNCHANGED <<fvars, pvars, dvars>>
    /\ ArchivesRender

\* the cleanup of the second mount effect
Unmount ==
    /\ phase = "mounted"
    /\ phase' = "unmounted"
    /\ sources' = Closed(sources, eventSourceRef)
    /\ handled' = NoRequest
    /\ UNCHANGED <<demo, isAuthenticated, accessToken, recentFaults, powerQuality,
                   voltageData, stats, view, storageToken, eventSourceRef, logins,
                   loginsStarted, fetches, delivered, dropped, exportOpen, exportLoading,
                   exportMessage, exports, exportsStarted>>
    /\ UNCHANGED <<fvars, pvars, dvars>>
    /\ ArchivesRender

\* handleLogin up to its return (demo) or its first await
HandleLogin ==
    /\ Alive
    /\ ~isAuthenticated
    /\ loginsStarted < MaxLogins
    /\ loginsStarted' = loginsStarted + 1
    /\ IF demo
       THEN /\ accessToken' = DemoToken
            /\ storageToken' = DemoToken
            /\ isAuthenticated' = TRUE
            /\ StartDataFetch(DemoToken, TRUE)
            /\ UNCHANGED logins
       ELSE /\ logins' = logins + 1
            /\ UNCHANGED <<accessToken, storageToken, isAuthenticated, voltageData,
                           powerQuality, recentFaults, stats, sources, eventSourceRef,
                           fetches>>
    /\ handled' = NoRequest
    /\ UNCHANGED <<demo, phase, view, delivered, dropped, exportOpen, exportLoading,
                   exportMessage, exports, exportsStarted>>
    /\ UNCHANGED <<fvars, pvars, dvars>>
    /\ ArchivesRender

\* handleLogin that does not test response.ok
LoginSettlesAnyStatus(o, tok) ==
    /\ logins > 0
    /\ logins' = logins - 1
    /\ IF o \in {"ok", "refused"}
       THEN /\ accessToken' = IF Alive THEN tok ELSE accessToken
            /\ storageToken' = tok
            /\ isAuthenticated' = IF Alive THEN TRUE ELSE isAuthenticated
            /\ StartDataFetch(tok, Alive)
       ELSE UNCHANGED <<accessToken, storageToken, isAuthenticated, voltageData,
                        powerQuality, recentFaults, stats, sources, eventSourceRef,
                        fetches>>
    /\ handled' = NoRequest
    /\ UNCHANGED <<demo, phase, view, loginsStarted, delivered, dropped, exportOpen,
                   exportLoading, exportMessage, exports, exportsStarted>>
    /\ UNCHANGED <<fvars, pvars, dvars>>
    /\ ArchivesRender

\* handleLogin from the answer of /api/auth/login on
LoginSettles(o, tok) ==
    /\ logins > 0
    /\ logins' = logins - 1
    /\ IF o = "ok"
       THEN /\ accessToken' = IF Alive THEN tok ELSE accessToken
            /\ storageToken' = tok
            /\ isAuthenticated' = IF Alive THEN TRUE ELSE isAuthenticated
            /\ StartDataFetch(tok, Alive)
       ELSE UNCHANGED <<accessToken, storageToken, isAuthenticated, voltageData,
                        powerQuality, recentFaults, stats, sources, eventSourceRef,
                        fetches>>
    /\ handled' = NoRequest
    /\ UNCHANGED <<demo, phase, view, loginsStarted, delivered, dropped, exportOpen,
                   exportLoading, exportMessage, exports, exportsStarted>>
    /\ UNCHANGED <<fvars, pvars, dvars>>
    /\ ArchivesRender

\* what handleLogout reads and writes
Controller ==
    [storageToken |-> storageToken, accessToken |-> accessToken,
     isAuthenticated |-> isAuthenticated, recentFaults |-> recentFaults,
     powerQuality |-> powerQuality, voltageData |-> voltageData, stats |-> stats,
     sources |-> sources, eventSourceRef |-> eventSourceRef]

\* handleLogout that closes the EventSource and keeps the reference to it
LogoutKeepsRef(c) ==
    [c EXCEPT !.storageToken = Null, !.accessToken = Null, !.isAuthenticated = FALSE,
              !.recentFaults = <<>>, !.powerQuality = <<>>, !.voltageData = <<>>,
              !.stats = InitialStats,
              !.sources = Closed(c.sources, c.eventSourceRef)]

\* handleLogout that leaves the token in localStorage
LogoutKeepsStorage(c) ==
    [c EXCEPT !.accessToken = Null, !.isAuthenticated = FALSE,
              !.recentFaults = <<>>, !.powerQuality = <<>>, !.voltageData = <<>>,
              !.stats = InitialStats,
              !.sources = Closed(c.sources, c.eventSourceRef),
              !.eventSourceRef = NoSource]

\* the body of handleLogout, from the state c
Logout(c) ==
    [c EXCEPT !.storageToken = Null, !.accessToken = Null, !.isAuthenticated = FALSE,
              !.recentFaults = <<>>, !.powerQuality = <<>>, !.voltageData = <<>>,
              !.stats = InitialStats,
              !.sources = Closed(c.sources, c.eventSourceRef),
              !.eventSourceRef = NoSource]

\* handleLogout; the ExportMenu of the session is unmounted with the dashboard
HandleLogout ==
    /\ Alive
    /\ isAuthenticated
    /\ LET c == Logout(Controller)
       IN  /\ storageToken' = c.storageToken
           /\ accessToken' = c.accessToken
           /\ isAuthenticated' = c.isAuthenticated
           /\ recentFaults' = c.recentFaults
           /\ powerQuality' = c.powerQuality
           /\ voltageData' = c.voltageData
           /\ stats' = c.stats
           /\ sources' = c.sources
           /\ eventSourceRef' = c.eventSourceRef
    /\ exportOpen' = FALSE
    /\ exportLoading' = FALSE
    /\ exportMessage' = NoMessage
    /\ exports' = [e \in {[x EXCEPT !.current = FALSE] : x \in BagToSet(exports)} |->
                      CopiesIn([e EXCEPT !.current = TRUE], exports)
                      + CopiesIn(e, exports)]
    /\ handled' = NoRequest
    /\ UNCHANGED <<demo, phase, view, logins, loginsStarted, fetches, delivered, dropped,
                   exportsStarted>>
    /\ UNCHANGED <<fvars, pvars, dvars>>
    /\ ArchivesRender


\* was the request made for the session that is authenticated now
ForSession(tok) == isAuthenticated /\ tok = accessToken

\* the display state the four data requests write
Display ==
    [faults |-> recentFaults, powerQuality |-> powerQuality, voltage |-> voltageData,
     stats |-> stats]

\* a completion of the statistics request that also clears the fault list
AppliedClearsFaults(d, kind, o) ==
    IF o # "data" THEN d
    ELSE IF kind = "stats" THEN [d EXCEPT !.stats = Body(kind), !.faults = <<>>]
    ELSE [d EXCEPT ![kind] = Body(kind)]

\* the display state after the request of the kind has come back with o: only an
\* ok response whose body parses is applied, by the setter of its kind
Applied(d, kind, o) ==
    IF o = "data" THEN [d EXCEPT ![kind] = Body(kind)] ELSE d

\* fetchFaults / fetchPowerQuality / fetchVoltage / fetchStats from the answer on;
\* no state is read between the two awaits, so they are one step
DataFetchSettles(f, o) ==
    /\ f \in BagToSet(fetches)
    /\ fetches' = fetches (-) SetToBag({f})
    /\ LET d == IF Alive THEN Applied(Display, f.kind, o) ELSE Display
       IN  /\ recentFaults' = d.faults
           /\ powerQuality' = d.powerQuality
           /\ voltageData' = d.voltage
           /\ stats' = d.stats
    /\ handled' = IF o = "unauthorized" /\ Alive /\ ForSession(f.token)
                  THEN f.kind ELSE NoRequest
    /\ UNCHANGED <<demo, phase, isAuthenticated, accessToken, view, storageToken,
                   eventSourceRef, sources, logins, loginsStarted, delivered, dropped,
                   exportOpen, exportLoading, exportMessage, exports, exportsStarted>>
    /\ UNCHANGED <<fvars, pvars, rvars, dvars>>

\* a listener that closes its EventSource when event.data does not parse
StreamMessageClosesOnError(s, env) ==
    /\ s \in 1..Len(sources)
    /\ sources[s].open
    /\ delivered < MaxMessages
    /\ delivered' = delivered + 1
    /\ dropped' = IF env.parses THEN dropped ELSE dropped + 1
    /\ sources' = IF env.parses THEN sources ELSE Closed(sources, s)
    /\ LET item == 900 + delivered'
           has(part) == env.parses /\ part \in env.parts /\ Alive
       IN  /\ voltageData' = IF has("voltage")
                             THEN SliceLast(Append(voltageData, item), VoltageWindow)
                             ELSE voltageData
           /\ powerQuality' = IF has("power_quality")
                              THEN SliceLast(Append(powerQuality, item),
                                             PowerQualityWindow)
                              ELSE powerQuality
           /\ recentFaults' = IF has("fault")
                              THEN SliceFirst(<<item>> \o recentFaults, FaultWindow)
                              ELSE recentFaults
    /\ handled' = NoRequest
    /\ UNCHANGED <<demo, phase, isAuthenticated, accessToken, stats, view, storageToken,
                   eventSourceRef, logins, loginsStarted, fetches, exportOpen,
                   exportLoading, exportMessage, exports, exportsStarted>>
    /\ UNCHANGED <<fvars, pvars, rvars, dvars>>

\* the 'message' listener of the EventSource numbered s
StreamMessage(s, env) ==
    /\ s \in 1..Len(sources)
    /\ sources[s].open
    /\ delivered < MaxMessages
    /\ delivered' = delivered + 1
    /\ dropped' = IF env.parses THEN dropped ELSE dropped + 1
    /\ LET item == 900 + delivered'
           has(part) == env.parses /\ part \in env.parts /\ Alive
       IN  /\ voltageData' = IF has("voltage")
                             THEN SliceLast(Append(voltageData, item), VoltageWindow)
                             ELSE voltageData
           /\ powerQuality' = IF has("power_quality")
                              THEN SliceLast(Append(powerQuality, item),
                                             PowerQualityWindow)
                              ELSE powerQuality
           /\ recentFaults' = IF has("fault")
                              THEN SliceFirst(<<item>> \o recentFaults, FaultWindow)
                              ELSE recentFaults
    /\ handled' = NoRequest
    /\ UNCHANGED <<demo, phase, isAuthenticated, accessToken, stats, view, storageToken,
                   eventSourceRef, sources, logins, loginsStarted, fetches, exportOpen,
                   exportLoading, exportMessage, exports, exportsStarted>>
    /\ UNCHANGED <<fvars, pvars, rvars, dvars>>

\* the Dashboard and Archives buttons of the header
SetView(v) ==
    /\ Alive
    /\ isAuthenticated
    /\ (v = "archives" /\ view # "archives") => archLoads < MaxArchiveLoads
    /\ view' = v
    /\ handled' = NoRequest
    /\ UNCHANGED <<demo, phase, isAuthenticated, accessToken, recentFaults, powerQuality,
                   voltageData, stats, storageToken, eventSourceRef, sources, logins,
                   loginsStarted, fetches, delivered, dropped, exportOpen, exportLoading,
                   exportMessage, exports, exportsStarted>>
    /\ UNCHANGED <<fvars, pvars, dvars>>
    /\ ArchivesRender

\* everything of the controller that the ExportMenu leaves alone
ControllerUnchanged ==
    UNCHANGED <<demo, phase, isAuthenticated, accessToken, recentFaults, powerQuality,
                voltageData, stats, storageToken, eventSourceRef, sources, logins,
                loginsStarted, fetches, delivered, dropped>>

\* the Export trigger button
ToggleExportMenu ==
    /\ Alive
    /\ isAuthenticated
    /\ ~exportLoading
    /\ exportOpen' = ~exportOpen
    /\ handled' = NoRequest
    /\ ControllerUnchanged
    /\ UNCHANGED <<view, exportLoading, exportMessage, exports, exportsStarted>>
    /\ UNCHANGED <<fvars, pvars, rvars, dvars>>

\* handleClickOutside, registered while the menu is open
HandleClickOutside ==
    /\ Alive
    /\ isAuthenticated
    /\ exportOpen
    /\ exportOpen' = FALSE
    /\ handled' = NoRequest
    /\ ControllerUnchanged
    /\ UNCHANGED <<view, exportLoading, exportMessage, exports, exportsStarted>>
    /\ UNCHANGED <<fvars, pvars, rvars, dvars>>

\* the View Archives entry of the menu: onViewArchives
ViewArchives ==
    /\ Alive
    /\ isAuthenticated
    /\ exportOpen
    /\ ~exportLoading
    /\ view # "archives" => archLoads < MaxArchiveLoads
    /\ view' = "archives"
    /\ handled' = NoRequest
    /\ ControllerUnchanged
    /\ UNCHANGED <<exportOpen, exportLoading, exportMessage, exports, exportsStarted>>
    /\ UNCHANGED <<fvars, pvars, dvars>>
    /\ ArchivesRender

\* the timer that clears a message
MessageTimeout ==
    /\ Alive
    /\ isAuthenticated
    /\ exportMessage # NoMessage
    /\ exportMessage' = NoMessage
    /\ handled' = NoRequest
    /\ ControllerUnchanged
    /\ UNCHANGED <<view, exportOpen, exportLoading, exports, exportsStarted>>
    /\ UNCHANGED <<fvars, pvars, rvars, dvars>>

\* callExport(path) up to its return or its first await; token is accessToken.
\* The path only selects the URL and is not read after the request is sent
CallExport(path) ==
    /\ Alive
    /\ isAuthenticated
    /\ exportOpen
    /\ ~exportLoading
    /\ exportsStarted < MaxExports
    /\ exportsStarted' = exportsStarted + 1
    /\ IF demo
       THEN /\ exportMessage' = [text |-> "Demo mode: simulated export complete",
                                 type |-> "success"]
            /\ exportOpen' = FALSE
            /\ UNCHANGED <<exportLoading, exports>>
       ELSE IF accessToken = Null
       THEN /\ exportMessage' = [text |-> "Login required", type |-> "error"]
            /\ UNCHANGED <<exportOpen, exportLoading, exports>>
       ELSE /\ exportLoading' = TRUE
            /\ exportMessage' = NoMessage
            /\ exports' = exports (+) SetToBag({[token |-> accessToken,
                                                 current |-> TRUE]})
            /\ UNCHANGED exportOpen
    /\ handled' = NoRequest
    /\ ControllerUnchanged
    /\ UNCHANGED view
    /\ UNCHANGED <<fvars, pvars, rvars, dvars>>

\* callExport from the answer on. The controller passes no onTokenExpired, so
\* onTokenExpired?.() does nothing; the setters act on the instance that started
\* the export, which is gone after a logout
ExportSettles(e, o) ==
    /\ e \in BagToSet(exports)
    /\ exports' = exports (-) SetToBag({e})
    /\ LET mounted == Alive /\ e.current
       IN  /\ exportMessage' =
                IF ~mounted \/ o = "unauthorized" THEN exportMessage
                ELSE IF o = "success" THEN [text |-> "Success", type |-> "success"]
                ELSE [text |-> "Export failed", type |-> "error"]
           /\ exportLoading' = IF mounted THEN FALSE ELSE exportLoading
           /\ exportOpen' = IF mounted THEN FALSE ELSE exportOpen
           /\ handled' = IF o = "unauthorized" /\ mounted /\ ForSession(e.token)
                         THEN "export" ELSE NoRequest
    /\ ControllerUnchanged
    /\ UNCHANGED <<view, exportsStarted>>
    /\ UNCHANGED <<fvars, pvars, rvars, dvars>>

\* the session, its data requests and its stream. The header is left out: the view
\* tabs and the ExportMenu read and write nothing the steps below read or write
ANext ==
    \/ Mount
    \/ Unmount
    \/ HandleLogin
    \/ \E o \in LoginOutcomes, tok \in Tokens : LoginSettles(o, tok)
    \/ HandleLogout
    \/ \E f \in BagToSet(fetches), o \in DataOutcomes : DataFetchSettles(f, o)
    \/ \E s \in 1..(MaxLogins + 1), env \in Envelopes : StreamMessage(s, env)

\* the session with the header and the Archives view. The data requests
\* and the stream are left out: they read and write none of view, exportOpen,
\* exportLoading, exportMessage, exports, and enable no step of the header
MNext ==
    \/ Mount
    \/ Unmount
    \/ HandleLogin
    \/ \E o \in LoginOutcomes, tok \in SessionTokens : LoginSettles(o, tok)
    \/ HandleLogout
    \/ \E v \in {"dashboard", "archives"} : SetView(v)
    \/ ToggleExportMenu
    \/ HandleClickOutside
    \/ ViewArchives
    \/ MessageTimeout
    \/ \E path \in ExportPaths : CallExport(path)
    \/ \E e \in BagToSet(exports), o \in ExportOutcomes : ExportSettles(e, o)
    \/ ArchivesRefresh
    \/ \E r \in BagToSet(archRequests), o \in ArchiveOutcomes : ArchivesSettles(r, o)
    \/ ArchivesDownload
    \/ \E r \in BagToSet(archDownloads), o \in DownloadOutcomes : DownloadSettles(r, o)

----------------------------------------------------------------------------
(* Mode/Token Preference Store: localStorage and the useApiToggle hook *)

\* what a previous visit, or another script of the origin, left under 'apiMode'
StoredModes == {Null, "rest", "graphql", "GraphQL"}

\* a saved value the state initializer does not recognise
PersistedAsLabel(g) == IF g THEN "GraphQL" ELSE "REST"

\* useGraphQL ? 'graphql' : 'rest'
Persisted(g) == IF g THEN "graphql" ELSE "rest"

\* the first render of useApiToggle and its effect: the state initializer reads
\* localStorage outside any try, so a read that throws makes the render throw
RenderHook ==
    IF storageAvailable
    THEN /\ hookPhase' = "mounted"
         /\ hookUseGraphQL' = (apiMode = "graphql")
         /\ apiMode' = Persisted(hookUseGraphQL')
    ELSE /\ hookPhase' = "crashed"
         /\ UNCHANGED <<hookUseGraphQL, apiMode>>

\* the page is loaded for the first time
Load ==
    /\ hookPhase = "unrendered"
    /\ RenderHook
    /\ UNCHANGED <<storageAvailable, toggles, reloads>>
    /\ UNCHANGED <<fvars, avars, rvars, dvars>>

\* toggleApi, with the effect that saves the new mode
ToggleApi ==
    /\ hookPhase = "mounted"
    /\ toggles < MaxToggles
    /\ toggles' = toggles + 1
    /\ hookUseGraphQL' = ~hookUseGraphQL
    /\ apiMode' = Persisted(hookUseGraphQL')
    /\ UNCHANGED <<storageAvailable, hookPhase, reloads>>
    /\ UNCHANGED <<fvars, avars, rvars, dvars>>

\* the page is reloaded: all component state is discarded, localStorage stays; the
\* hook renders again and App is rendered again, its effects still to run
Reload ==
    /\ hookPhase = "mounted"
    /\ reloads < MaxReloads
    /\ reloads' = reloads + 1
    /\ RenderHook
    /\ phase' = "created"
    /\ isAuthenticated' = FALSE
    /\ accessToken' = Null
    /\ recentFaults' = <<>>
    /\ powerQuality' = <<>>
    /\ voltageData' = <<>>
    /\ stats' = InitialStats
    /\ view' = "dashboard"
    /\ eventSourceRef' = NoSource
    /\ sources' = <<>>
    /\ logins' = 0
    /\ fetches' = EmptyBag
    /\ exportOpen' = FALSE
    /\ exportLoading' = FALSE
    /\ exportMessage' = NoMessage
    /\ exports' = EmptyBag
    /\ handled' = NoRequest
    /\ UNCHANGED <<demo, storageToken, loginsStarted, delivered, dropped,
                   exportsStarted, storageAvailable, toggles>>
    /\ UNCHANGED <<fvars, dvars>>
    /\ ArchivesRender

\* startup and the mode toggle: the hook, and the session restore of App
PNext ==
    \/ Load
    \/ ToggleApi
    \/ Reload
    \/ Mount

----------------------------------------------------------------------------
(* DemoDataButton (frontend/src/components/DemoDataButton.jsx) *)

\* setCooldown(30)
CooldownSeconds == 30

PopulateOutcomes == {"ok", "errorStatus", "badJson", "rejected"}

DemoButtonUnchanged == UNCHANGED <<fvars, avars, pvars, rvars>>

\* the parent renders the button with another token
DdSetToken(t) ==
    /\ ddMounted
    /\ t # ddToken
    /\ ddToken' = t
    /\ UNCHANGED <<ddMounted, ddLoading, ddCooldown, ddMessage, ddShowConfirm,
                   ddRequests, ddStarted>>
    /\ DemoButtonUnchanged

\* the Populate button: disabled={loading || cooldown > 0 || !token}
DdOpenConfirm ==
    /\ ddMounted
    /\ ~(ddLoading \/ ddCooldown > 0 \/ ddToken = Null)
    /\ ~ddShowConfirm
    /\ ddShowConfirm' = TRUE
    /\ UNCHANGED <<ddMounted, ddToken, ddLoading, ddCooldown, ddMessage, ddRequests,
                   ddStarted>>
    /\ DemoButtonUnchanged

\* Cancel, or a click on the overlay
DdCancel ==
    /\ ddMounted
    /\ ddShowConfirm
    /\ ddShowConfirm' = FALSE
    /\ UNCHANGED <<ddMounted, ddToken, ddLoading, ddCooldown, ddMessage, ddRequests,
                   ddStarted>>
    /\ DemoButtonUnchanged

\* handlePopulate up to its return or its first await: the Proceed button of
\* the confirm dialog
DdHandlePopulate ==
    /\ ddMounted
    /\ ddShowConfirm
    /\ IF ddToken = Null \/ ddLoading \/ ddCooldown > 0
       THEN UNCHANGED <<ddShowConfirm, ddLoading, ddMessage, ddRequests, ddStarted>>
       ELSE /\ ddStarted < MaxPopulates
            /\ ddShowConfirm' = FALSE
            /\ ddLoading' = TRUE
            /\ ddMessage' = ""
            /\ ddRequests' = ddRequests + 1
            /\ ddStarted' = ddStarted + 1
    /\ UNCHANGED <<ddMounted, ddToken, ddCooldown>>
    /\ DemoButtonUnchanged

\* handlePopulate starting the cooldown whatever the answer
DdSettlesAlwaysCools(o) ==
    /\ ddRequests > 0
    /\ ddRequests' = ddRequests - 1
    /\ IF ddMounted
       THEN /\ ddMessage' = IF o = "ok" THEN "success" ELSE "error"
            /\ ddCooldown' = CooldownSeconds
            /\ ddLoading' = FALSE
       ELSE UNCHANGED <<ddMessage, ddCooldown, ddLoading>>
    /\ UNCHANGED <<ddMounted, ddToken, ddShowConfirm, ddStarted>>
    /\ DemoButtonUnchanged

\* handlePopulate from the answer on: the response and its body are read in
\* one try; only an ok response whose body parses starts the cooldown; the
\* finally resets the loading flag
DdSettles(o) ==
    /\ ddRequests > 0
    /\ ddRequests' = ddRequests - 1
    /\ IF ddMounted
       THEN /\ ddMessage' = IF o = "ok" THEN "success" ELSE "error"
            /\ ddCooldown' = IF o = "ok" THEN CooldownSeconds ELSE ddCooldown
            /\ ddLoading' = FALSE
       ELSE UNCHANGED <<ddMessage, ddCooldown, ddLoading>>
    /\ UNCHANGED <<ddMounted, ddToken, ddShowConfirm, ddStarted>>
    /\ DemoButtonUnchanged

\* the one-second timer the cooldown effect arms while cooldown > 0
DdTick ==
    /\ ddMounted
    /\ ddCooldown > 0
    /\ ddCooldown' = ddCooldown - 1
    /\ UNCHANGED <<ddMounted, ddToken, ddLoading, ddMessage, ddShowConfirm, ddRequests,
                   ddStarted>>
    /\ DemoButtonUnchanged

\* the five-second timer the message effect arms while there is a message
DdMessageTimeout ==
    /\ ddMounted
    /\ ddMessage # ""
    /\ ddMessage' = ""
    /\ UNCHANGED <<ddMounted, ddToken, ddLoading, ddCooldown, ddShowConfirm, ddRequests,
                   ddStarted>>
    /\ DemoButtonUnchanged

\* the button is unmounted: the effects' cleanups clear the timers
DdUnmount ==
    /\ ddMounted
    /\ ddMounted' = FALSE
    /\ UNCHANGED <<ddToken, ddLoading, ddCooldown, ddMessage, ddShowConfirm, ddRequests,
                   ddStarted>>
    /\ DemoButtonUnchanged

DNext ==
    \/ \E t \in MaybeToken : DdSetToken(t)
    \/ DdOpenConfirm
    \/ DdCancel
    \/ DdHandlePopulate
    \/ \E o \in PopulateOutcomes : DdSettles(o)
    \/ DdTick
    \/ DdMessageTimeout
    \/ DdUnmount

----------------------------------------------------------------------------
(* Specifications *)

\* module load: the graphqlClient singleton exists, no DataFetcher is constructed;
\* the controller is rendered and its effects never run
FInit ==
    /\ constructed = FALSE
    /\ token = Null
    /\ useGraphQL = FALSE
    /\ logCallback = FALSE
    /\ sinkThrows = FALSE
    /\ requestCounter = 0
    /\ sink = <<>>
    /\ gqlToken = Null
    /\ gqlClient = NoClient
    /\ invoked = 0
    /\ calls = EmptyBag
    /\ last = NoLast
    /\ demo = FALSE
    /\ phase = "created"
    /\ isAuthenticated = FALSE
    /\ accessToken = Null
    /\ recentFaults = <<>>
    /\ powerQuality = <<>>
    /\ voltageData = <<>>
    /\ stats = InitialStats
    /\ view = "dashboard"
    /\ storageToken = Null
    /\ eventSourceRef = NoSource
    /\ sources = <<>>
    /\ logins = 0
    /\ loginsStarted = 0
    /\ fetches = EmptyBag
    /\ delivered = 0
    /\ dropped = 0
    /\ exportOpen = FALSE
    /\ exportLoading = FALSE
    /\ exportMessage = NoMessage
    /\ exports = EmptyBag
    /\ exportsStarted = 0
    /\ handled = NoRequest
    /\ storageAvailable = TRUE
    /\ apiMode = Null
    /\ hookPhase = "unrendered"
    /\ hookUseGraphQL = FALSE
    /\ toggles = 0
    /\ reloads = 0
    /\ archLoading = FALSE
    /\ archError = ""
    /\ archFiles = "none"
    /\ archRequests = EmptyBag
    /\ archLoads = 0
    /\ archDownloads = EmptyBag
    /\ archDownloadsStarted = 0
    /\ ddMounted = FALSE
    /\ ddToken = Null
    /\ ddLoading = FALSE
    /\ ddCooldown = 0
    /\ ddMessage = ""
    /\ ddShowConfirm = FALSE
    /\ ddRequests = 0
    /\ ddStarted = 0

\* first render of App, DEMO fixed by the build, localStorage as a previous visit
\* left it; no DataFetcher is constructed
AInit ==
    /\ demo \in BOOLEAN
    /\ phase = "created"
    /\ isAuthenticated = FALSE
    /\ accessToken = Null
    /\ recentFaults = <<>>
    /\ powerQuality = <<>>
    /\ voltageData = <<>>
    /\ stats = InitialStats
    /\ view = "dashboard"
    /\ storageToken \in MaybeToken
    /\ eventSourceRef = NoSource
    /\ sources = <<>>
    /\ logins = 0
    /\ loginsStarted = 0
    /\ fetches = EmptyBag
    /\ delivered = 0
    /\ dropped = 0
    /\ exportOpen = FALSE
    /\ exportLoading = FALSE
    /\ exportMessage = NoMessage
    /\ exports = EmptyBag
    /\ exportsStarted = 0
    /\ handled = NoRequest
    /\ constructed = FALSE
    /\ token = Null
    /\ useGraphQL = FALSE
    /\ logCallback = FALSE
    /\ sinkThrows = FALSE
    /\ requestCounter = 0
    /\ sink = <<>>
    /\ gqlToken = Null
    /\ gqlClient = NoClient
    /\ invoked = 0
    /\ calls = EmptyBag
    /\ last = NoLast
    /\ storageAvailable \in BOOLEAN
    /\ apiMode = Null
    /\ hookPhase = "unrendered"
    /\ hookUseGraphQL = FALSE
    /\ toggles = 0
    /\ reloads = 0
    /\ archLoading = FALSE
    /\ archError = ""
    /\ archFiles = "none"
    /\ archRequests = EmptyBag
    /\ archLoads = 0
    /\ archDownloads = EmptyBag
    /\ archDownloadsStarted = 0
    /\ ddMounted = FALSE
    /\ ddToken = Null
    /\ ddLoading = FALSE
    /\ ddCooldown = 0
    /\ ddMessage = ""
    /\ ddShowConfirm = FALSE
    /\ ddRequests = 0
    /\ ddStarted = 0

\* the DataFetcher and the GraphQL client, the controller not started; the
\* sink, when there is one, returns normally
FetcherSpec == FInit /\ [][FNext]_vars

\* the same with any sink
ObserverSpec == FInit /\ [][ONext]_vars

\* the GraphQL client used directly, no DataFetcher constructed
ClientSpec == FInit /\ [][CNext]_vars

\* the DemoDataButton just mounted by its parent with a token or without one
DInit ==
    /\ constructed = FALSE
    /\ token = Null
    /\ useGraphQL = FALSE
    /\ logCallback = FALSE
    /\ sinkThrows = FALSE
    /\ requestCounter = 0
    /\ sink = <<>>
    /\ gqlToken = Null
    /\ gqlClient = NoClient
    /\ invoked = 0
    /\ calls = EmptyBag
    /\ last = NoLast
    /\ demo = FALSE
    /\ phase = "created"
    /\ isAuthenticated = FALSE
    /\ accessToken = Null
    /\ recentFaults = <<>>
    /\ powerQuality = <<>>
    /\ voltageData = <<>>
    /\ stats = InitialStats
    /\ view = "dashboard"
    /\ storageToken = Null
    /\ eventSourceRef = NoSource
    /\ sources = <<>>
    /\ logins = 0
    /\ loginsStarted = 0
    /\ fetches = EmptyBag
    /\ delivered = 0
    /\ dropped = 0
    /\ exportOpen = FALSE
    /\ exportLoading = FALSE
    /\ exportMessage = NoMessage
    /\ exports = EmptyBag
    /\ exportsStarted = 0
    /\ handled = NoRequest
    /\ storageAvailable = TRUE
    /\ apiMode = Null
    /\ hookPhase = "unrendered"
    /\ hookUseGraphQL = FALSE
    /\ toggles = 0
    /\ reloads = 0
    /\ archLoading = FALSE
    /\ archError = ""
    /\ archFiles = "none"
    /\ archRequests = EmptyBag
    /\ archLoads = 0
    /\ archDownloads = EmptyBag
    /\ archDownloadsStarted = 0
    /\ ddMounted = TRUE
    /\ ddToken \in MaybeToken
    /\ ddLoading = FALSE
    /\ ddCooldown = 0
    /\ ddMessage = ""
    /\ ddShowConfirm = FALSE
    /\ ddRequests = 0
    /\ ddStarted = 0

\* the DemoDataButton on its own; a timer that is armed fires
DemoButtonSpec == DInit /\ [][DNext]_vars /\ WF_vars(DdTick)

\* the controller and its ExportMenu, no DataFetcher constructed
AppSpec == AInit /\ [][ANext]_vars

\* the page before its first load: localStorage as it was left, readable or not
PInit ==
    /\ demo \in BOOLEAN
    /\ phase = "created"
    /\ isAuthenticated = FALSE
    /\ accessToken = Null
    /\ recentFaults = <<>>
    /\ powerQuality = <<>>
    /\ voltageData = <<>>
    /\ stats = InitialStats
    /\ view = "dashboard"
    /\ storageToken \in MaybeToken
    /\ eventSourceRef = NoSource
    /\ sources = <<>>
    /\ logins = 0
    /\ loginsStarted = 0
    /\ fetches = EmptyBag
    /\ delivered = 0
    /\ dropped = 0
    /\ exportOpen = FALSE
    /\ exportLoading = FALSE
    /\ exportMessage = NoMessage
    /\ exports = EmptyBag
    /\ exportsStarted = 0
    /\ handled = NoRequest
    /\ constructed = FALSE
    /\ token = Null
    /\ useGraphQL = FALSE
    /\ logCallback = FALSE
    /\ sinkThrows = FALSE
    /\ requestCounter = 0
    /\ sink = <<>>
    /\ gqlToken = Null
    /\ gqlClient = NoClient
    /\ invoked = 0
    /\ calls = EmptyBag
    /\ last = NoLast
    /\ storageAvailable \in BOOLEAN
    /\ apiMode \in StoredModes
    /\ hookPhase = "unrendered"
    /\ hookUseGraphQL = FALSE
    /\ toggles = 0
    /\ reloads = 0
    /\ archLoading = FALSE
    /\ archError = ""
    /\ archFiles = "none"
    /\ archRequests = EmptyBag
    /\ archLoads = 0
    /\ archDownloads = EmptyBag
    /\ archDownloadsStarted = 0
    /\ ddMounted = FALSE
    /\ ddToken = Null
    /\ ddLoading = FALSE
    /\ ddCooldown = 0
    /\ ddMessage = ""
    /\ ddShowConfirm = FALSE
    /\ ddRequests = 0
    /\ ddStarted = 0

\* the session with the header of the dashboard
MenuSpec == AInit /\ [][MNext]_vars

\* startup, reloads and the mode toggle
PreferenceSpec == PInit /\ [][PNext]_vars

----------------------------------------------------------------------------
(* Properties of the Session/View Controller *)

\* C9: when a data request made for the authenticated session (one of the four
\* fetches of the controller, or an export started from the header) has just been
\* answered 401, the session is logged out: no token in memory, none in storage,
\* and the login screen is shown
C9_UnauthorizedForcesLogout ==
    handled # NoRequest =>
        /\ ~isAuthenticated
        /\ accessToken = Null
        /\ storageToken = Null

\* C10: while logged out, the lists are empty and the statistics have their reset
\* values, whatever request started before the logout completes afterwards
C10_LoggedOutViewStaysReset ==
    ~isAuthenticated =>
        /\ voltageData = <<>>
        /\ powerQuality = <<>>
        /\ recentFaults = <<>>
        /\ stats = InitialStats

\* the EventSources that are open
OpenSources == {i \in 1..Len(sources) : sources[i].open}

\* C11: at most one Live Update Channel is open at any moment, and an open one is
\* the one created last, the one eventSourceRef holds: whatever opened it closed
\* the one before
C11_AtMostOneChannelOpen ==
    /\ Cardinality(OpenSources) <= 1
    /\ \A i \in OpenSources : i = Len(sources) /\ i = eventSourceRef

\* a second channel was opened while the session was authenticated, and the first
\* one is closed
C11_Witness ==
    /\ Len(sources) = 2
    /\ sources[1] = [open |-> FALSE, closes |-> 1]
    /\ sources[2].open
    /\ isAuthenticated
    /\ loginsStarted = 2
    /\ logins = 0

\* C12: a Live Update Channel is open only in an authenticated session of a
\* mounted view
C12_ChannelOnlyInLiveSession ==
    OpenSources # {} => Alive /\ isAuthenticated

\* C13: a second handleLogout right after the first changes nothing and closes
\* nothing: the first call closes the open channel once, the second finds no channel
C13_LogoutIdempotent ==
    Alive =>
        LET once == Logout(Controller)
            twice == Logout(once)
        IN  /\ twice = once
            /\ eventSourceRef # NoSource =>
                  /\ once.sources[eventSourceRef].closes
                         = sources[eventSourceRef].closes + 1
                  /\ twice.sources[eventSourceRef].closes
                         = once.sources[eventSourceRef].closes
            /\ \A i \in 1..Len(sources) :
                  i # eventSourceRef => once.sources[i] = sources[i]

\* a logout has closed the channel of the session once, and a second call finds
\* the state it would produce
C13_Witness ==
    /\ Alive
    /\ ~isAuthenticated
    /\ Len(sources) = 1
    /\ sources[1] = [open |-> FALSE, closes |-> 1]
    /\ eventSourceRef = NoSource
    /\ Logout(Controller) = Controller

\* the step just taken delivered the message env to the listener of a mounted view
Delivers(env) == \E s \in 1..(MaxLogins + 1) : StreamMessage(s, env) /\ Alive

\* C14: a well-formed envelope with a voltage delta V makes the voltage buffer one
\* entry longer, V last, while it holds fewer than 30 entries; at 30 entries V is
\* appended and the oldest entry leaves; the buffer never holds more than 30
C14_VoltageWindow ==
    /\ [](Len(voltageData) <= VoltageWindow)
    /\ [][\A env \in Envelopes :
            (Delivers(env) /\ env.parses /\ "voltage" \in env.parts) =>
                LET V == 900 + delivered'
                    n == Len(voltageData)
                IN  IF n < VoltageWindow
                    THEN voltageData' = Append(voltageData, V)
                    ELSE /\ Len(voltageData') = VoltageWindow
                         /\ voltageData'[VoltageWindow] = V
                         /\ \A i \in 1..(VoltageWindow - 1) :
                               voltageData'[i] = voltageData[i + 1]]_vars

\* the buffer was full of fetched readings and two deltas have evicted the two
\* oldest of them
C14_Witness ==
    /\ Len(voltageData) = VoltageWindow
    /\ voltageData[1] = 103
    /\ voltageData[VoltageWindow - 1] = 901
    /\ voltageData[VoltageWindow] = 902

\* C15: a message whose data does not parse changes no buffer and closes no
\* channel, and a well-formed message delivered after it is applied
C15_MalformedDropped ==
    [][\A env \in Envelopes :
          Delivers(env) =>
              IF ~env.parses
              THEN UNCHANGED <<voltageData, powerQuality, recentFaults, sources,
                               eventSourceRef>>
              ELSE dropped > 0 =>
                   /\ "voltage" \in env.parts =>
                         voltageData'[Len(voltageData')] = 900 + delivered'
                   /\ "power_quality" \in env.parts =>
                         powerQuality'[Len(powerQuality')] = 900 + delivered'
                   /\ "fault" \in env.parts => recentFaults'[1] = 900 + delivered']_vars

\* the first message was dropped and the second, well-formed, was applied on the
\* channel that is still open
C15_Witness ==
    /\ Alive
    /\ dropped = 1
    /\ delivered = 2
    /\ voltageData = <<902>>
    /\ recentFaults = <<902>>
    /\ eventSourceRef # NoSource
    /\ sources[eventSourceRef].open

\* C16: the state a logout leaves has no token in memory and none in storage, is
\* unauthenticated, and shows empty lists and the initial statistics
C16_LogoutDestroysSession ==
    [][HandleLogout =>
          /\ accessToken' = Null
          /\ storageToken' = Null
          /\ ~isAuthenticated'
          /\ voltageData' = <<>>
          /\ powerQuality' = <<>>
          /\ recentFaults' = <<>>
          /\ stats' = InitialStats]_vars

\* a session that had applied a stream message to its buffers is logged out
C16_Witness ==
    /\ Alive
    /\ ~isAuthenticated
    /\ delivered = 1
    /\ dropped = 0
    /\ accessToken = Null
    /\ storageToken = Null
    /\ voltageData = <<>>
    /\ powerQuality = <<>>
    /\ recentFaults = <<>>
    /\ stats = InitialStats

\* C17: in an authenticated session the 'accessToken' slot of localStorage holds
\* the token the session holds in memory
C17_StorageHoldsSessionToken ==
    isAuthenticated => storageToken = accessToken

\* C20: when the four data requests of a session are in flight, any two of them
\* can complete in either order with the same resulting display state, whatever
\* they come back with, and each completion changes only the part of its kind
C20_CompletionOrderIrrelevant ==
    (\A k \in Kinds : \E f \in BagToSet(fetches) : f.kind = k) =>
        \A k1 \in Kinds, o1 \in DataOutcomes :
            /\ \A k2 \in Kinds \ {k1} :
                  Applied(Display, k1, o1)[k2] = Display[k2]
            /\ \A k2 \in Kinds \ {k1}, o2 \in DataOutcomes :
                  Applied(Applied(Display, k1, o1), k2, o2)
                      = Applied(Applied(Display, k2, o2), k1, o1)

\* the four requests of the one session have all come back with data
C20_Witness ==
    /\ Alive
    /\ isAuthenticated
    /\ loginsStarted = 1
    /\ fetches = EmptyBag
    /\ delivered = 0
    /\ \A k \in Kinds : Display[k] = Body(k)

----------------------------------------------------------------------------
(* Properties of the Mode/Token Preference Store *)

\* C18: while the hook is mounted the value under 'apiMode' is 'graphql' exactly
\* when the mode is GraphQL and 'rest' otherwise; a reload restores the mode that
\* was active before it; the first load gives GraphQL only for a stored 'graphql'
C18_ModeSurvivesReload ==
    /\ [](hookPhase = "mounted" =>
             apiMode = (IF hookUseGraphQL THEN "graphql" ELSE "rest"))
    /\ [][(Reload /\ storageAvailable) => hookUseGraphQL' = hookUseGraphQL]_vars
    /\ [][(Load /\ storageAvailable) => (hookUseGraphQL' <=> apiMode = "graphql")]_vars

\* REST was toggled to GraphQL once, and the reload after it came up in GraphQL
C18_Witness ==
    /\ hookPhase = "mounted"
    /\ toggles = 1
    /\ reloads = 1
    /\ hookUseGraphQL
    /\ apiMode = "graphql"

\* C19: when reading localStorage throws, startup still completes: the hook is
\* mounted in REST mode and App is mounted unauthenticated
C19_StartupSurvivesStorageFailure ==
    ~storageAvailable =>
        /\ hookPhase # "unrendered" => hookPhase = "mounted" /\ ~hookUseGraphQL
        /\ phase # "created" => phase = "mounted" /\ (~demo => ~isAuthenticated)

----------------------------------------------------------------------------
(* Properties of the DataFetcher: the sink, errors, frame, requests in flight *)

\* what the invocation recorded in l returns or throws when the DataFetcher
\* has no sink: log() does nothing, its arguments are still evaluated
SinklessOutcome(l) ==
    IF l.via = "graphql" THEN GqlAfterRequest(l.op, GqlClientRequest(l.auth, l.reply)).outcome
    ELSE IF l.json = NoReply THEN RestAfterFetch(l.op, l.fetch).outcome
    ELSE RestAfterJson(l.op, l.json).outcome

\* C21: a fetch operation returns the value or throws the error it returns
\* or throws, on the same transport answers, when the DataFetcher has no
\* sink
C21_SinkOnlyObserves ==
    last.op # "none" => last.outcome = SinklessOutcome(last)

\* the invocation that completed in the step just taken was served over REST
\* and got a response whose status is neither 2xx nor 401
RestFailed ==
    /\ last.op # "none"
    /\ last.via = "rest"
    /\ last.fetch.kind = "response"
    /\ last.fetch.status \notin 200..299
    /\ last.fetch.status # 401

\* C22: a REST response whose status is neither 2xx nor 401 makes the
\* operation throw the HTTP error whose message carries the status, and the
\* body of the response is not read, for each of the five operations
C22_HttpErrorCarriesStatus ==
    RestFailed =>
        /\ last.outcome.kind = "throw"
        /\ Includes(last.outcome.message, "HTTP")
        /\ Includes(last.outcome.message, ToString(last.fetch.status))
        /\ last.json = NoReply

C22_Witness ==
    /\ RestFailed
    /\ last.op = "fetchSensorStatus"
    /\ last.fetch.status = 404
    /\ last.outcome = Throw(<<"HTTP", "error!", "status:", "404">>)

\* the call of request() or mutate() that completed in the step just taken
ClientCallDone == last.op \in ClientMethods

\* C23: request() and mutate() called while the wrapper has no client throw
\* the not-initialized error and send nothing; the wrapper has no client
\* exactly until the first setToken call, whatever token it passes, and a
\* call made when there is a client never throws the not-initialized error
C23_NotInitialized ==
    /\ [](ClientCallDone /\ last.auth = NoClient =>
             last.outcome = Throw(NotInitializedMsg) /\ last.gqlCalls = 0)
    /\ [](ClientCallDone /\ last.auth # NoClient =>
             last.outcome # Throw(NotInitializedMsg) /\ last.gqlCalls = 1)
    /\ [][(\E t \in MaybeToken : ClientSetToken(t)) => gqlClient' # NoClient]_vars
    /\ [][gqlClient # NoClient => gqlClient' # NoClient]_vars
    /\ [][gqlClient' # NoClient /\ gqlClient = NoClient =>
             \E t \in MaybeToken : ClientSetToken(t)]_vars

C23_Witness ==
    /\ last.op = "mutate"
    /\ last.auth = NoClient
    /\ last.outcome = Throw(NotInitializedMsg)
    /\ gqlClient = NoAuth

\* a step of a fetch operation: its invocation or one of its awaits settling
FetchStep ==
    \/ \E op \in Ops : Invoke(op)
    \/ \E call \in InFlight, r \in RestFetchResults : FetchSettles(call, r)
    \/ \E call \in InFlight, j \in JsonReplies : JsonSettles(call, j)
    \/ \E call \in InFlight, u \in GqlReplies : RequestSettles(call, u)

\* C24: once the DataFetcher is constructed its token changes only in a
\* setToken call and its mode only in a setMode call: no step of a fetch
\* operation changes either, setToken leaves the mode and setMode the token
C24_TokenModeFrame ==
    /\ [][FetchStep => UNCHANGED <<token, useGraphQL>>]_vars
    /\ [][(\E t \in MaybeToken : SetToken(t)) => useGraphQL' = useGraphQL]_vars
    /\ [][(\E g \in BOOLEAN : SetMode(g)) => token' = token]_vars
    /\ [][constructed /\ token' # token => \E t \in MaybeToken : SetToken(t)]_vars
    /\ [][constructed /\ useGraphQL' # useGraphQL => \E g \in BOOLEAN : SetMode(g)]_vars

\* a fetch sent over REST failed after the mode was switched to GraphQL and
\* the token replaced: both are as the calls left them
C24_Witness ==
    /\ last.op # "none"
    /\ last.via = "rest"
    /\ last.outcome.kind = "throw"
    /\ last.auth = Null
    /\ token # Null
    /\ useGraphQL

\* the invocation `call` completes in this step
Completes(call) ==
    \/ \E r \in RestFetchResults : FetchSettles(call, r) /\ last' # NoLast
    \/ \E j \in JsonReplies : JsonSettles(call, j)
    \/ \E u \in GqlReplies : RequestSettles(call, u)

\* C30: an invocation is sent over the transport of the mode in effect when
\* it is invoked (REST for fetchSensorStatus) with the token in effect then;
\* setMode and setToken leave the invocations in flight as they are, and
\* the invocation completes on that transport with that credential
C30_ModeAndTokenAtInvocation ==
    /\ [][\A op \in Ops : Invoke(op) =>
             \E c \in BagToSet(calls') :
                /\ calls' = calls (+) SetToBag({c})
                /\ c.op = op
                /\ c.via = IF useGraphQL /\ op # "fetchSensorStatus" THEN "graphql" ELSE "rest"
                /\ c.auth = IF c.via = "rest" THEN token
                            ELSE IF token # Null THEN token ELSE NoAuth]_vars
    /\ [][((\E g \in BOOLEAN : SetMode(g)) \/ (\E t \in MaybeToken : SetToken(t)))
             => calls' = calls]_vars
    /\ [][\A call \in InFlight : Completes(call) =>
             /\ last'.via = call.via
             /\ last'.auth = call.auth
             /\ IF call.via = "rest"
                THEN last'.reply = NoReply /\ last'.restCalls = 1 /\ last'.gqlCalls = 0
                ELSE last'.fetch = NoReply /\ last'.json = NoReply
                     /\ last'.restCalls = 0 /\ last'.gqlCalls = 1]_vars

\* a fetch sent over GraphQL with a token returned its data after the mode
\* was switched to REST and the token removed
C30_Witness ==
    /\ last.op # "none"
    /\ last.via = "graphql"
    /\ last.auth \in Tokens
    /\ last.outcome.kind = "return"
    /\ ~useGraphQL
    /\ token = Null

----------------------------------------------------------------------------
(* Properties of the Session/View Controller: login, view, stream deltas *)

\* C25: a step that authenticates the session leaves the dashboard as the
\* active view, also when the preceding logout was made in the Archives view
C25_DashboardAfterLogin ==
    [][(~isAuthenticated /\ isAuthenticated') => view' = "dashboard"]_vars

\* C26: a login whose response is not ok, or whose request throws, changes
\* nothing of the session: authentication, token in memory and in storage,
\* displayed data, data requests in flight, channels
C26_FailedLoginChangesNothing ==
    [][\A o \in LoginOutcomes \ {"ok"}, tok \in Tokens :
          LoginSettles(o, tok) =>
              UNCHANGED <<isAuthenticated, accessToken, storageToken, recentFaults,
                          powerQuality, voltageData, stats, fetches, sources,
                          eventSourceRef>>]_vars

\* the only login submitted has failed: the login form is still showing, no
\* token anywhere, nothing requested, no channel
C26_Witness ==
    /\ Alive
    /\ ~demo
    /\ loginsStarted = 1
    /\ logins = 0
    /\ ~isAuthenticated
    /\ accessToken = Null
    /\ storageToken = Null
    /\ fetches = EmptyBag
    /\ sources = <<>>

----------------------------------------------------------------------------
(* Properties of ExportMenu, Archives and DemoDataButton *)

\* a request of the mounted instance of the component is in flight
InFlightOf(requests) == \E r \in BagToSet(requests) : r.current

\* C28: in a mounted ExportMenu and in a mounted Archives the loading flag
\* is true exactly while a request of that instance (an export; the list of
\* archives) is in flight, and no such request is sent without a token
C28_LoadingWhileInFlight ==
    /\ (Alive /\ isAuthenticated) => (exportLoading <=> InFlightOf(exports))
    /\ ArchivesShown => (archLoading <=> InFlightOf(archRequests))
    /\ \A e \in BagToSet(exports) : e.token # Null
    /\ \A r \in BagToSet(archRequests) : r.token # Null

\* C29: a populate request is sent only with a token, with no populate
\* request in flight and with the cooldown at 0; the cooldown stays within
\* 0..30, goes up only when a populate succeeds, and then to 30, is left as
\* it is by a populate that fails, goes down only by one, at the timer, and
\* on a mounted button reaches 0
C29_PopulateCooldown ==
    /\ [](ddCooldown \in 0..CooldownSeconds)
    /\ [][ddStarted' # ddStarted =>
             /\ ddToken # Null
             /\ ddRequests = 0
             /\ ddCooldown = 0
             /\ ddRequests' = 1]_vars
    /\ [][ddCooldown' > ddCooldown => DdSettles("ok") /\ ddCooldown' = CooldownSeconds]_vars
    /\ [][\A o \in PopulateOutcomes \ {"ok"} : DdSettles(o) => ddCooldown' = ddCooldown]_vars
    /\ [][ddCooldown' < ddCooldown => DdTick /\ ddCooldown' = ddCooldown - 1]_vars
    /\ (ddMounted /\ ddCooldown > 0) ~> (ddCooldown = 0 \/ ~ddMounted)

\* two populates were sent one after the other, the second has failed and
\* no cooldown is running
C29_Witness ==
    /\ ddMounted
    /\ ddStarted = 2
    /\ ddRequests = 0
    /\ ddCooldown = 0
    /\ ddMessage = "error"

====
